---- MODULE Spec2Model ----
(***************************************************************************)
(* Flashcard CSV pipeline of the AnkiApp flashcard generator:              *)
(*   ContentTreeWalker  GenericLanguageCSVGenerator._extract_entries       *)
(*   FieldResolver      AnkiAppFormatter._detect_and_update_field_mappings *)
(*                      and _safe_get_string                               *)
(*   CardFormatters     AnkiApp, CommonPhrases, Anki, Quizlet, Generic     *)
(*   TagSynthesizer     _generate_simple_tags                              *)
(*   CsvEmitter         _write_csv (csv.writer) and the preview builder    *)
(*                                                                         *)
(* Text is modelled character by character: a Python str is a sequence of  *)
(* one-character strings, so that split, replace, strip, capitalize, the   *)
(* substring test and CSV quoting are computed the way the code computes   *)
(* them.  A JSON / Python value is a record [t |-> type tag, v |-> value]; *)
(* a dict is the sequence of its <<key, value>> pairs in declaration       *)
(* order.  A code point outside the Basic Multilingual Plane (the emoji    *)
(* glyphs of the Back field) is written as one element holding its name.   *)
(***************************************************************************)
EXTENDS Integers, Sequences, FiniteSets, TLC

VARIABLES
    mode,                  \* the running operation: "generate", "file", "preview",
                           \* "format", "escape", "tags", "resolve", "validate", "export",
                           \* "walk", "back", "cache"
    pc,                    \* position inside the running operation
    data,                  \* generate, walk: the parsed JSON document; file: what is
                           \* found at the path; cache: DataCache.cache
    formatter_type,        \* generate, preview: the requested formatter type
    custom_config,         \* generate: the caller's custom_config dict (JNone when not given)
    entries_with_metadata, \* generate, preview: the batch of <<entry, metadata>>;
                           \* tags, back: the one <<entry, metadata>> to work on;
                           \* walk: the pairs _extract_entries returned
    formatter,             \* the formatter instance [cls, config, field_mappings]
    idx,                   \* generate, preview: number of batch entries processed;
                           \* cache: DataCache.max_size
    csvfile,               \* generate: the rows written to the file, each as its written fields
    csv_lines,             \* preview: the lines of the preview text
    success_count,         \* generate, preview: the loop's counter of formatted rows
    log,                   \* the logger's records, in order
    result,                \* the value returned to the caller (Exception when it raised)
    produced,              \* history: per processed entry what format_entry returned;
                           \* export: the lines of the preview content, header or row;
                           \* cache: the operations done so far
    call,                  \* format: the last format_entry call and its outcome
    field,                 \* escape: the field value to serialise; resolve: field_keys;
                           \* file: the parts of the path; export: current_csv_content;
                           \* cache: DataCache.access_order
    written                \* escape: the field as written by the preview and by the file
                           \* path; tags: the synthesized tag list and its joined text;
                           \* resolve, validate, back: the value returned; export: the
                           \* file; walk: whether _extract_entries raised

vars == <<mode, pc, data, formatter_type, custom_config, entries_with_metadata,
          formatter, idx, csvfile, csv_lines, success_count, log, result, produced,
          call, field, written>>

-----------------------------------------------------------------------------
(* Python str primitives over sequences of characters                      *)

\* the only element of a one-element set ({e : x \in {v}} names v once for e)
Only(S) == CHOOSE x \in S : TRUE

UpperChars == <<"A","B","C","D","E","F","G","H","I","J","K","L","M",
                "N","O","P","Q","R","S","T","U","V","W","X","Y","Z">>
LowerChars == <<"a","b","c","d","e","f","g","h","i","j","k","l","m",
                "n","o","p","q","r","s","t","u","v","w","x","y","z">>
DigitChars == <<"0","1","2","3","4","5","6","7","8","9">>
Whitespace == {" ", "\n", "\r", "\t"}

LowerChar(c) ==
    IF \E i \in 1..26 : UpperChars[i] = c
    THEN LowerChars[CHOOSE i \in 1..26 : UpperChars[i] = c] ELSE c

UpperChar(c) ==
    IF \E i \in 1..26 : LowerChars[i] = c
    THEN UpperChars[CHOOSE i \in 1..26 : LowerChars[i] = c] ELSE c

\* str.lower()
Lower(s) == [i \in 1..Len(s) |-> LowerChar(s[i])]

\* str.capitalize(): first character upper-cased, the rest lower-cased
Capitalize(s) == [i \in 1..Len(s) |-> IF i = 1 THEN UpperChar(s[i]) ELSE LowerChar(s[i])]

\* s[i:i+len(p)] == p
MatchAt(s, p, i) ==
    /\ i + Len(p) - 1 <= Len(s)
    /\ \A j \in 1..Len(p) : s[i + j - 1] = p[j]

\* p in s   (substring test of two str)
Contains(s, p) == \E i \in 1..(Len(s) + 1) : MatchAt(s, p, i)

\* any(ch in s for ch in chars)
HasAnyChar(s, chars) == \E i \in 1..Len(s) : s[i] \in chars

RECURSIVE ReplaceFrom(_, _, _, _)
\* the text from position i on, every further occurrence of old replaced
ReplaceFrom(s, old, new, i) ==
    LET hits == {j \in i..Len(s) : MatchAt(s, old, j)}
    IN  IF hits = {} THEN SubSeq(s, i, Len(s))
        ELSE LET j == CHOOSE h \in hits : \A k \in hits : h <= k
             IN  SubSeq(s, i, j - 1) \o new \o ReplaceFrom(s, old, new, j + Len(old))

\* str.replace(old, new) for a non-empty old: leftmost, non-overlapping
Replace(s, old, new) == ReplaceFrom(s, old, new, 1)

\* str.split(sep)[0] for a one-character sep: the text before the first sep
SplitFirst(s, sep) ==
    IF \E i \in 1..Len(s) : s[i] = sep
    THEN SubSeq(s, 1, (CHOOSE i \in 1..Len(s) :
                          s[i] = sep /\ \A j \in 1..(i - 1) : s[j] # sep) - 1)
    ELSE s

\* str.strip()
Strip(s) ==
    LET keep == {i \in 1..Len(s) : s[i] \notin Whitespace}
    IN  IF keep = {} THEN <<>>
        ELSE SubSeq(s, CHOOSE i \in keep : \A j \in keep : i <= j,
                       CHOOSE i \in keep : \A j \in keep : j <= i)

RECURSIVE SplitWsFrom(_, _)
\* the whitespace-separated words of the text from position i on
SplitWsFrom(s, i) ==
    LET starts == {j \in i..Len(s) : s[j] \notin Whitespace}
    IN  IF starts = {} THEN <<>>
        ELSE LET b == CHOOSE j \in starts : \A k \in starts : j <= k
                 e == CHOOSE j \in b..Len(s) :
                          /\ \A k \in b..j : s[k] \notin Whitespace
                          /\ (j = Len(s) \/ s[j + 1] \in Whitespace)
             IN  <<SubSeq(s, b, e)>> \o SplitWsFrom(s, e + 1)

\* str.split(): the whitespace-separated words
SplitWs(s) == SplitWsFrom(s, 1)

RECURSIVE SplitFrom(_, _, _)
\* the pieces of the text from position i on, cut at every sep
SplitFrom(s, sep, i) ==
    LET cuts == {j \in i..Len(s) : s[j] = sep}
    IN  IF cuts = {} THEN << SubSeq(s, i, Len(s)) >>
        ELSE LET j == CHOOSE c \in cuts : \A k \in cuts : c <= k
             IN  << SubSeq(s, i, j - 1) >> \o SplitFrom(s, sep, j + 1)

\* str.split(sep) for a one-character sep
Split(s, sep) == SplitFrom(s, sep, 1)

RECURSIVE Flatten(_)
\* ''.join(parts)
Flatten(parts) ==
    IF Len(parts) = 0 THEN <<>>
    ELSE IF Len(parts) = 1 THEN parts[1]
    ELSE LET h == Len(parts) \div 2
         IN  Flatten(SubSeq(parts, 1, h)) \o Flatten(SubSeq(parts, h + 1, Len(parts)))

\* sep.join(parts)
Join(parts, sep) ==
    Flatten([i \in 1..(2 * Len(parts) - 1) |->
                IF i % 2 = 1 THEN parts[(i + 1) \div 2] ELSE sep])

RECURSIVE IntStr(_)
\* str(n) for a non-negative int
IntStr(n) == IF n < 10 THEN <<DigitChars[n + 1]>>
             ELSE IntStr(n \div 10) \o <<DigitChars[(n % 10) + 1]>>

IsDigit(c) == \E i \in 1..10 : DigitChars[i] = c
DigitVal(c) == (CHOOSE i \in 1..10 : DigitChars[i] = c) - 1

RECURSIVE DigitsVal(_)
\* int(digits)
DigitsVal(ds) == IF ds = <<>> THEN 0
                 ELSE DigitsVal(SubSeq(ds, 1, Len(ds) - 1)) * 10 + DigitVal(ds[Len(ds)])

-----------------------------------------------------------------------------
(* Python / JSON values                                                    *)

JStr(s)  == [t |-> "str",  v |-> s]
JInt(n)  == [t |-> "int",  v |-> n]
JList(l) == [t |-> "list", v |-> l]
JDict(p) == [t |-> "dict", v |-> p]
JNone    == [t |-> "none", v |-> <<>>]

\* key in d
Has(d, k) == \E i \in 1..Len(d.v) : d.v[i][1] = k

\* d[key], key present
Get(d, k) == d.v[CHOOSE i \in 1..Len(d.v) : d.v[i][1] = k][2]

\* d.get(key, default)
GetOr(d, k, default) == IF Has(d, k) THEN Get(d, k) ELSE default

\* list(d.keys())
Keys(d) == [i \in 1..Len(d.v) |-> d.v[i][1]]

\* the dict d with d[k] = x assigned: an existing key keeps its place, a new key goes last
Put(d, k, x) ==
    IF Has(d, k)
    THEN JDict([i \in 1..Len(d.v) |-> IF d.v[i][1] = k THEN <<k, x>> ELSE d.v[i]])
    ELSE JDict(Append(d.v, <<k, x>>))

\* x in lst, for a list of str
InList(lst, x) == \E i \in 1..Len(lst) : lst[i] = x

JBool(b) == [t |-> "bool", v |-> b]

\* bool(x)
Bool(x) ==
    CASE x.t = "str"  -> x.v # <<>>
      [] x.t = "list" -> x.v # <<>>
      [] x.t = "dict" -> x.v # <<>>
      [] x.t = "int"  -> x.v # 0
      [] x.t = "bool" -> x.v
      [] OTHER        -> FALSE

\* one character of repr(str) inside the quote character q
ReprChar(c, q) ==
    CASE c = "\\" -> <<"\\", "\\">>
      [] c = "\n" -> <<"\\", "n">>
      [] c = "\r" -> <<"\\", "r">>
      [] c = "\t" -> <<"\\", "t">>
      [] c = q    -> <<"\\", q>>
      [] OTHER    -> <<c>>

ReprChars(s, q) == Flatten([i \in 1..Len(s) |-> ReprChar(s[i], q)])

\* repr(s) of a str: single quotes, double quotes when it holds ' and no "
ReprStr(s) ==
    LET q == IF HasAnyChar(s, {"'"}) /\ ~HasAnyChar(s, {"\""}) THEN "\"" ELSE "'"
    IN  <<q>> \o ReprChars(s, q) \o <<q>>

RECURSIVE PyRepr(_)
\* repr(x)
PyRepr(x) ==
    CASE x.t = "str"  -> ReprStr(x.v)
      [] x.t = "int"  -> IF x.v < 0 THEN <<"-">> \o IntStr(0 - x.v) ELSE IntStr(x.v)
      [] x.t = "bool" -> IF x.v THEN <<"T","r","u","e">> ELSE <<"F","a","l","s","e">>
      [] x.t = "none" -> <<"N","o","n","e">>
      [] x.t = "list" ->
           <<"[">> \o Join([i \in 1..Len(x.v) |-> PyRepr(x.v[i])], <<","," ">>) \o <<"]">>
      [] x.t = "dict" ->
           <<"{">> \o Join([i \in 1..Len(x.v) |->
                               ReprStr(x.v[i][1]) \o <<":"," ">> \o PyRepr(x.v[i][2])], <<","," ">>)
                   \o <<"}">>

\* str(x)
PyStr(x) == IF x.t = "str" THEN x.v ELSE PyRepr(x)

-----------------------------------------------------------------------------
(* LanguageFieldMapper                                                     *)

\* the built-in language table, in declaration order (no languages.txt file present)
default_mappings ==
    << <<<<"g","e","r","m","a","n">>,     <<<<"G","e","r","m","a","n">>, <<"g","e","r","m","a","n">>, <<"t","a","r","g","e","t">>, <<"w","o","r","d">>, <<"t","e","r","m">>>> >>,
       <<<<"e","n","g","l","i","s","h">>,    <<<<"E","n","g","l","i","s","h">>, <<"e","n","g","l","i","s","h">>, <<"n","a","t","i","v","e">>, <<"t","r","a","n","s","l","a","t","i","o","n">>, <<"a","n","s","w","e","r">>>> >>,
       <<<<"d","u","t","c","h">>,      <<<<"D","u","t","c","h">>, <<"d","u","t","c","h">>, <<"n","e","d","e","r","l","a","n","d","s">>>> >>,
       <<<<"s","p","a","n","i","s","h">>,    <<<<"S","p","a","n","i","s","h">>, <<"s","p","a","n","i","s","h">>, <<"e","s","p","a","ñ","o","l">>>> >>,
       <<<<"f","r","e","n","c","h">>,     <<<<"F","r","e","n","c","h">>, <<"f","r","e","n","c","h">>, <<"f","r","a","n","ç","a","i","s">>>> >>,
       <<<<"i","t","a","l","i","a","n">>,    <<<<"I","t","a","l","i","a","n">>, <<"i","t","a","l","i","a","n">>, <<"i","t","a","l","i","a","n","o">>>> >>,
       <<<<"p","o","r","t","u","g","u","e","s","e">>, <<<<"P","o","r","t","u","g","u","e","s","e">>, <<"p","o","r","t","u","g","u","e","s","e">>, <<"p","o","r","t","u","g","u","ê","s">>>> >>,
       <<<<"t","a","g","a","l","o","g">>,    <<<<"T","a","g","a","l","o","g">>, <<"t","a","g","a","l","o","g">>>> >> >>

\* _language_mapper.language_mappings as a dict lang_code -> JList of field names
language_mappings ==
    JDict([i \in 1..Len(default_mappings) |->
              <<default_mappings[i][1], JList(default_mappings[i][2])>>])

\* LanguageFieldMapper.get_field_names
get_field_names(language) ==
    GetOr(language_mappings, Strip(Lower(language)),
          JList(<<Capitalize(language), Lower(language)>>)).v

\* first field name of the language's list that the entry holds with a truthy value
FirstPresentField(entry_data, possible_fields) ==
    LET hit == {i \in 1..Len(possible_fields) :
                   /\ Has(entry_data, possible_fields[i])
                   /\ Bool(Get(entry_data, possible_fields[i]))}
    IN  IF hit = {} THEN <<>>
        ELSE << possible_fields[CHOOSE i \in hit : \A j \in hit : i <= j] >>

RECURSIVE DetectFrom(_, _)
DetectFrom(entry_data, i) ==
    IF i > Len(language_mappings.v) THEN <<>>
    ELSE LET f == FirstPresentField(entry_data, language_mappings.v[i][2].v)
         IN  (IF f = <<>> THEN <<>> ELSE << <<language_mappings.v[i][1], f[1]>> >>)
             \o DetectFrom(entry_data, i + 1)

\* LanguageFieldMapper.detect_language_fields: the detected <<lang_code, field_name>>
\* pairs in table order (the insertion order of the returned dict); the entry is a dict
detect_language_fields(entry_data) == DetectFrom(entry_data, 1)

-----------------------------------------------------------------------------
(* Formatter configuration and construction                                *)

\* AnkiAppFormatter.__init__: the base field mappings used when the config has none
base_field_mappings ==
    JDict(<< <<<<"t","a","r","g","e","t">>, JList(<<<<"t","a","r","g","e","t">>, <<"w","o","r","d">>, <<"t","e","r","m">>, <<"q","u","e","s","t","i","o","n">>, <<"f","r","o","n","t">>>>)>>,
             <<<<"n","a","t","i","v","e">>, JList(<<<<"n","a","t","i","v","e">>, <<"t","r","a","n","s","l","a","t","i","o","n">>, <<"a","n","s","w","e","r">>, <<"m","e","a","n","i","n","g">>, <<"b","a","c","k">>>>)>>,
             <<<<"e","x","a","m","p","l","e">>, JList(<<<<"e","x","a","m","p","l","e">>, <<"e","x","a","m","p","l","e","s">>, <<"e","x","a","m","p","l","e","_","s","e","n","t","e","n","c","e">>>>)>>,
             <<<<"p","r","o","n","u","n","c","i","a","t","i","o","n">>, JList(<<<<"p","r","o","n","u","n","c","i","a","t","i","o","n">>, <<"p","h","o","n","e","t","i","c">>, <<"s","o","u","n","d">>>>)>>,
             <<<<"n","o","t","e","s">>, JList(<<<<"n","o","t","e","s">>, <<"n","o","t","e">>, <<"m","e","m","o","r","y","_","t","i","p">>, <<"t","i","p">>>>)>>,
             <<<<"t","a","g","s">>, JList(<<<<"t","a","g","s">>, <<"T","a","g","s">>, <<"c","a","t","e","g","o","r","i","e","s">>, <<"t","a","g">>>>)>> >>)

\* GenericLanguageCSVGenerator._get_default_config
_get_default_config ==
    JDict(<< <<<<"t","a","g","_","p","r","e","f","i","x">>, JStr(<<"L","a","n","g","u","a","g","e","_","L","e","a","r","n","i","n","g">>)>>,
             <<<<"i","n","c","l","u","d","e","_","h","t","m","l","_","f","o","r","m","a","t","t","i","n","g">>, JBool(TRUE)>>,
             <<<<"s","h","o","w","_","c","o","n","n","e","c","t","i","o","n","s">>, JBool(TRUE)>>,
             <<<<"s","h","o","w","_","c","o","n","t","e","x","t","_","i","n","d","i","c","a","t","o","r","s">>, JBool(TRUE)>>,
             <<<<"p","h","r","a","s","e","_","c","a","t","e","g","o","r","y","_","p","r","e","f","i","x">>, JStr(<<"U+1F4AC">>)>>,
             <<<<"t","a","r","g","e","t","_","l","a","n","g","u","a","g","e">>, JStr(<<"T","a","r","g","e","t">>)>>,
             <<<<"n","a","t","i","v","e","_","l","a","n","g","u","a","g","e">>, JStr(<<"E","n","g","l","i","s","h">>)>>,
             <<<<"f","i","e","l","d","_","m","a","p","p","i","n","g","s">>,
               JDict(<< <<<<"t","a","r","g","e","t">>, JStr(<<"t","a","r","g","e","t">>)>>,
                        <<<<"n","a","t","i","v","e">>, JStr(<<"n","a","t","i","v","e">>)>>,
                        <<<<"e","x","a","m","p","l","e">>, JStr(<<"e","x","a","m","p","l","e">>)>>,
                        <<<<"p","r","o","n","u","n","c","i","a","t","i","o","n">>, JStr(<<"p","r","o","n","u","n","c","i","a","t","i","o","n">>)>>,
                        <<<<"n","o","t","e","s">>, JStr(<<"n","o","t","e","s">>)>> >>)>> >>)

\* MainWindow._get_csv_generator_config with the settings' default values
_get_csv_generator_config ==
    JDict(<< <<<<"t","a","g","_","p","r","e","f","i","x">>, JStr(<<"L","a","n","g","u","a","g","e","_","L","e","a","r","n","i","n","g">>)>>,
             <<<<"i","n","c","l","u","d","e","_","h","t","m","l","_","f","o","r","m","a","t","t","i","n","g">>, JBool(TRUE)>>,
             <<<<"s","h","o","w","_","c","o","n","n","e","c","t","i","o","n","s">>, JBool(TRUE)>>,
             <<<<"s","h","o","w","_","c","o","n","t","e","x","t","_","i","n","d","i","c","a","t","o","r","s">>, JBool(TRUE)>>,
             <<<<"p","h","r","a","s","e","_","c","a","t","e","g","o","r","y","_","p","r","e","f","i","x">>, JStr(<<"U+1F4AC">>)>>,
             <<<<"t","a","r","g","e","t","_","l","a","n","g","u","a","g","e">>, JStr(<<>>)>>,
             <<<<"n","a","t","i","v","e","_","l","a","n","g","u","a","g","e">>, JStr(<<"e","n","g","l","i","s","h">>)>>,
             <<<<"f","i","e","l","d","_","m","a","p","p","i","n","g","s">>,
               JDict(<< <<<<"t","a","r","g","e","t">>, JList(<<<<"g","e","r","m","a","n">>, <<"G","e","r","m","a","n">>, <<"t","a","r","g","e","t">>, <<"w","o","r","d">>, <<"t","e","r","m">>, <<"p","h","r","a","s","e">>>>)>>,
                        <<<<"n","a","t","i","v","e">>, JList(<<<<"e","n","g","l","i","s","h">>, <<"E","n","g","l","i","s","h">>, <<"n","a","t","i","v","e">>, <<"t","r","a","n","s","l","a","t","i","o","n">>>>)>>,
                        <<<<"e","x","a","m","p","l","e">>, JList(<<<<"e","x","a","m","p","l","e">>, <<"e","x","a","m","p","l","e","_","s","e","n","t","e","n","c","e">>>>)>>,
                        <<<<"p","r","o","n","u","n","c","i","a","t","i","o","n">>, JList(<<<<"p","r","o","n","u","n","c","i","a","t","i","o","n">>, <<"p","h","o","n","e","t","i","c">>>>)>>,
                        <<<<"n","o","t","e","s">>, JList(<<<<"n","o","t","e","s">>, <<"N","o","t","e","s">>, <<"n","o","t","e">>, <<"m","e","m","o","r","y","_","t","i","p">>>>)>>,
                        <<<<"t","a","g","s">>, JList(<<<<"t","a","g","s">>, <<"T","a","g","s">>, <<"c","a","t","e","g","o","r","i","e","s">>, <<"t","a","g">>>>)>> >>)>> >>)

\* the formatter classes
AnkiAppCls    == "AnkiAppFormatter"
PhrasesCls    == "CommonPhrasesFormatter"
GenPhrasesCls == "csv_generator.CommonPhrasesFormatter"
AnkiCls       == "AnkiFormatter"
QuizletCls    == "QuizletFormatter"
GenericCls    == "GenericFormatter"

\* whether the class derives from AnkiAppFormatter
IsAnkiAppFamily(cls) == cls \in {AnkiAppCls, PhrasesCls, GenPhrasesCls}

\* csv_generator.CommonPhrasesFormatter.__init__: field_mappings.update({...})
GenPhrasesUpdate(fm) ==
    Put(Put(Put(Put(fm,
        <<"t","a","r","g","e","t">>, JList(<<<<"g","e","r","m","a","n">>, <<"G","e","r","m","a","n">>, <<"t","a","r","g","e","t">>, <<"p","h","r","a","s","e">>, <<"q","u","e","s","t","i","o","n">>>>)),
        <<"n","a","t","i","v","e">>, JList(<<<<"e","n","g","l","i","s","h">>, <<"E","n","g","l","i","s","h">>, <<"n","a","t","i","v","e">>, <<"t","r","a","n","s","l","a","t","i","o","n">>, <<"a","n","s","w","e","r">>>>)),
        <<"n","o","t","e","s">>,  JList(<<<<"n","o","t","e","s">>, <<"N","o","t","e","s">>, <<"n","o","t","e">>, <<"u","s","a","g","e">>, <<"c","o","n","t","e","x","t">>>>)),
        <<"t","a","g","s">>,   JList(<<<<"t","a","g","s">>, <<"T","a","g","s">>, <<"c","a","t","e","g","o","r","i","e","s">>, <<"t","a","g">>>>))

\* formatter_class(config): the instance after __init__ (config or {} when None)
NewFormatter(cls, config) ==
    LET cfg == IF config.t = "none" THEN JDict(<<>>) ELSE config
        fm0 == GetOr(cfg, <<"f","i","e","l","d","_","m","a","p","p","i","n","g","s">>, base_field_mappings)
        fm == IF ~IsAnkiAppFamily(cls) THEN JNone
              ELSE IF cls = GenPhrasesCls THEN GenPhrasesUpdate(fm0)
              ELSE fm0
    IN  [cls |-> cls,
         config |-> IF IsAnkiAppFamily(cls) /\ Has(cfg, <<"f","i","e","l","d","_","m","a","p","p","i","n","g","s">>)
                    THEN Put(cfg, <<"f","i","e","l","d","_","m","a","p","p","i","n","g","s">>, fm) ELSE cfg,
         field_mappings |-> fm]

-----------------------------------------------------------------------------
(* FieldResolver: AnkiAppFormatter._detect_and_update_field_mappings and   *)
(* _safe_get_string.  A step that raises leaves the mappings as they were  *)
(* at that point: [fm |-> field_mappings, raised |-> BOOLEAN].             *)

\* x not in self.field_mappings[role]: list membership, or substring of a str
NotInMapping(m, x) ==
    IF m.t = "list" THEN ~InList(m.v, x) ELSE ~Contains(m.v, x)

\* if x not in field_mappings[role]: field_mappings[role].insert(0, x) / .append(x)
\* (KeyError when the role is missing, AttributeError when the mapping is a str)
AddField(st, role, x, front) ==
    IF st.raised THEN st
    ELSE IF ~Has(st.fm, role) THEN [st EXCEPT !.raised = TRUE]
    ELSE LET m == Get(st.fm, role)
         IN  IF ~NotInMapping(m, x) THEN st
             ELSE IF m.t # "list" THEN [st EXCEPT !.raised = TRUE]
             ELSE [st EXCEPT !.fm = Put(st.fm, role,
                        JList(IF front THEN <<x>> \o m.v ELSE Append(m.v, x)))]

RECURSIVE AddFields(_, _, _, _)
\* for field in fields: if field not in field_mappings[role]: ....append(field)
AddFields(st, role, fields, front) ==
    IF fields = <<>> THEN st
    ELSE AddFields(AddField(st, role, fields[1], front), role, Tail(fields), front)

\* the configured language, or None when the config leaves the default
ConfiguredLang(config, key, default) ==
    LET lang == GetOr(config, key, JStr(default)).v
    IN  IF lang # default THEN JStr(Lower(lang)) ELSE JNone

\* target_lang after the auto-detection override
TargetLang(config, detected) ==
    LET target_lang == ConfiguredLang(config, <<"t","a","r","g","e","t","_","l","a","n","g","u","a","g","e">>, <<"T","a","r","g","e","t">>)
        non_english_langs == SelectSeq(detected, LAMBDA d : d[1] # <<"e","n","g","l","i","s","h">>)
        english_detected == \E i \in 1..Len(detected) : detected[i][1] = <<"e","n","g","l","i","s","h">>
    IN  IF non_english_langs # <<>> /\ english_detected
           /\ (target_lang.t = "none" \/ target_lang = JStr(<<"g","e","r","m","a","n">>))
        THEN JStr(non_english_langs[1][1])
        ELSE target_lang

\* native_lang after the auto-detection override
NativeLang(config, detected) ==
    LET native_lang == ConfiguredLang(config, <<"n","a","t","i","v","e","_","l","a","n","g","u","a","g","e">>, <<"E","n","g","l","i","s","h">>)
        non_english_langs == SelectSeq(detected, LAMBDA d : d[1] # <<"e","n","g","l","i","s","h">>)
        english_detected == \E i \in 1..Len(detected) : detected[i][1] = <<"e","n","g","l","i","s","h">>
    IN  IF non_english_langs # <<>> /\ english_detected /\ native_lang.t = "none"
        THEN JStr(<<"e","n","g","l","i","s","h">>)
        ELSE native_lang

RECURSIVE AddDetected(_, _, _, _)
\* for lang_code, field_name in detected_languages.items(): insert(0, field_name)
AddDetected(st, detected, target_lang, native_lang) ==
    IF detected = <<>> THEN st
    ELSE LET lang_code == detected[1][1]
             field_name == detected[1][2]
             st1 == IF \/ JStr(lang_code) = target_lang
                       \/ (target_lang.t = "none" /\ lang_code # <<"e","n","g","l","i","s","h">>)
                    THEN AddField(st, <<"t","a","r","g","e","t">>, field_name, TRUE)
                    ELSE IF \/ JStr(lang_code) = native_lang
                            \/ (native_lang.t = "none" /\ lang_code = <<"e","n","g","l","i","s","h">>)
                    THEN AddField(st, <<"n","a","t","i","v","e">>, field_name, TRUE)
                    ELSE st
         IN  AddDetected(st1, Tail(detected), target_lang, native_lang)

\* the fields of the mapper appended for a language that is set and known
AddLanguageFields(st, role, lang) ==
    IF lang.t # "none" /\ lang.v # <<>> /\ Has(language_mappings, lang.v)
    THEN AddFields(st, role, get_field_names(lang.v), FALSE)
    ELSE st

\* AnkiAppFormatter._detect_and_update_field_mappings
\* (entry_data.keys() raises AttributeError when the entry is not a dict)
AnkiAppDetect(config, fm, entry_data) ==
    IF entry_data.t # "dict" THEN [fm |-> fm, raised |-> TRUE]
    ELSE LET detected == detect_language_fields(entry_data)
             target_lang == TargetLang(config, detected)
             native_lang == NativeLang(config, detected)
             st1 == AddDetected([fm |-> fm, raised |-> FALSE], detected,
                                target_lang, native_lang)
             st2 == AddLanguageFields(st1, <<"t","a","r","g","e","t">>, target_lang)
         IN  AddLanguageFields(st2, <<"n","a","t","i","v","e">>, native_lang)

\* if field in entry_data and field not in field_mappings[role]: insert(0, field)
AddPhraseField(st, role, entry_data, name) ==
    IF st.raised \/ ~Has(entry_data, name) THEN st ELSE AddField(st, role, name, TRUE)

\* CommonPhrasesFormatter._detect_and_update_field_mappings (card_formatter.py)
PhrasesDetect(config, fm, entry_data) ==
    LET st0 == AnkiAppDetect(config, fm, entry_data)
        st1 == AddPhraseField(st0, <<"t","a","r","g","e","t">>, entry_data, <<"q","u","e","s","t","i","o","n">>)
        st2 == AddPhraseField(st1, <<"t","a","r","g","e","t">>, entry_data, <<"p","h","r","a","s","e">>)
        st3 == AddPhraseField(st2, <<"n","a","t","i","v","e">>, entry_data, <<"t","r","a","n","s","l","a","t","i","o","n">>)
    IN  AddPhraseField(st3, <<"n","a","t","i","v","e">>, entry_data, <<"a","n","s","w","e","r">>)

\* self._detect_and_update_field_mappings(entry_data), dispatched on the class
_detect_and_update_field_mappings(f, entry_data) ==
    IF f.cls = PhrasesCls THEN PhrasesDetect(f.config, f.field_mappings, entry_data)
    ELSE AnkiAppDetect(f.config, f.field_mappings, entry_data)

\* str(value) of a truthy list: joined with ", " when longer than one, else its only item
ListStr(l) ==
    IF Len(l) > 1 THEN Join([i \in 1..Len(l) |-> PyStr(l[i])], <<","," ">>)
    ELSE PyStr(l[1])

RECURSIVE SafeGetFrom(_, _, _)
SafeGetFrom(d, keys, default) ==
    IF keys = <<>> THEN default
    ELSE IF Has(d, keys[1])
         THEN LET value == Get(d, keys[1])
              IN  IF value.t = "list"
                  THEN (IF value.v # <<>> THEN ListStr(value.v)
                        ELSE SafeGetFrom(d, Tail(keys), default))
                  ELSE IF Bool(value) THEN PyStr(value)
                  ELSE SafeGetFrom(d, Tail(keys), default)
         ELSE SafeGetFrom(d, Tail(keys), default)

\* _safe_get_string scanning the names from the lowest rank to the highest
_safe_get_string_unranked(d, field_keys, default) ==
    LET keys == IF field_keys.t = "str" THEN <<field_keys.v>> ELSE field_keys.v
    IN  SafeGetFrom(d, [i \in 1..Len(keys) |-> keys[Len(keys) + 1 - i]], default)

\* AnkiAppFormatter._safe_get_string(data, field_keys, default); field_keys is a
\* JList of names or a single JStr name
_safe_get_string(d, field_keys, default) ==
    SafeGetFrom(d, IF field_keys.t = "str" THEN <<field_keys.v>> ELSE field_keys.v, default)

\* AnkiAppFormatter._safe_get_dict
_safe_get_dict(d, field_key) ==
    LET value == GetOr(d, field_key, JDict(<<>>))
    IN  IF value.t = "dict" THEN value ELSE JDict(<<>>)

-----------------------------------------------------------------------------
(* TagSynthesizer and Back field.  A helper that can raise returns         *)
(* [raised |-> BOOLEAN, v |-> text].                                       *)

Ok(text) == [raised |-> FALSE, v |-> text]
Raise    == [raised |-> TRUE,  v |-> <<>>]

\* metadata.get('week', metadata.get('unit', ''))
MetaWeek(metadata) == GetOr(metadata, <<"w","e","e","k">>, GetOr(metadata, <<"u","n","i","t">>, JStr(<<>>)))

\* metadata.get('section_topic', metadata.get('topic', ''))
MetaTopic(metadata) ==
    GetOr(metadata, <<"s","e","c","t","i","o","n","_","t","o","p","i","c">>, GetOr(metadata, <<"t","o","p","i","c">>, JStr(<<>>)))

\* the Week tag: [f"Week{week}"] if week else []
WeekTags(metadata) ==
    LET week == MetaWeek(metadata)
    IN  IF Bool(week) THEN << <<"W","e","e","k">> \o PyStr(week) >> ELSE <<>>

\* AnkiAppFormatter: the cleaned topic tag, [] when there is none;
\* .split()[0] raises IndexError when nothing but whitespace is left
AnkiAppTopicTags(metadata) ==
    LET topic == MetaTopic(metadata)
    IN  IF ~Bool(topic) THEN Ok(<<>>)
        ELSE LET topic_str == IF topic.t = "list" THEN PyStr(topic.v[1]) ELSE PyStr(topic)
                 words == SplitWs(Strip(Replace(Replace(SplitFirst(topic_str, ","),
                                      <<"&">>, <<"a","n","d">>), <<" ","a","n","d"," ">>, <<" ">>)))
             IN  IF words = <<>> THEN Raise
                 ELSE Ok(<< Capitalize(words[1]) >>)

\* the content type tag of the entry, when it is not the default 'vocabulary'
ContentTypeTags(entry_data) ==
    LET content_type == _safe_get_string(entry_data,
                            JList(<<<<"c","o","n","t","e","n","t","_","t","y","p","e">>, <<"t","y","p","e">>>>), <<"v","o","c","a","b","u","l","a","r","y">>)
    IN  IF Lower(content_type) # <<"v","o","c","a","b","u","l","a","r","y">> THEN << Capitalize(content_type) >> ELSE <<>>

RECURSIVE AddCleanTags(_, _)
\* for tag in raw: clean_tag = str(tag).strip().capitalize();
\*     if clean_tag and clean_tag not in tags: tags.append(clean_tag)
AddCleanTags(tags, raw) ==
    IF raw = <<>> THEN tags
    ELSE LET clean_tag == Capitalize(Strip(PyStr(raw[1])))
         IN  AddCleanTags(IF clean_tag # <<>> /\ ~InList(tags, clean_tag)
                          THEN Append(tags, clean_tag) ELSE tags,
                          Tail(raw))

\* AddEntryTags with the limit of the entry's own tags at three instead of two
AddEntryTags_three(tags, entry_tags) ==
    IF ~Bool(entry_tags) THEN tags
    ELSE IF entry_tags.t = "list"
         THEN AddCleanTags(tags, SubSeq(entry_tags.v, 1,
                                        IF Len(entry_tags.v) < 3 THEN Len(entry_tags.v) ELSE 3))
         ELSE AddCleanTags(tags, <<entry_tags>>)

\* the entry's own tags appended to tags: the first two of a list, or a scalar as one tag
AddEntryTags(tags, entry_tags) ==
    IF ~Bool(entry_tags) THEN tags
    ELSE IF entry_tags.t = "list"
         THEN AddCleanTags(tags, SubSeq(entry_tags.v, 1,
                                        IF Len(entry_tags.v) < 2 THEN Len(entry_tags.v) ELSE 2))
         ELSE AddCleanTags(tags, <<entry_tags>>)

\* AnkiAppFormatter._generate_simple_tags, as the list of tags before the join
AnkiAppTagList(entry_data, metadata) ==
    LET topic == AnkiAppTopicTags(metadata)
    IN  IF topic.raised THEN Raise
        ELSE Ok(AddEntryTags(WeekTags(metadata) \o topic.v \o ContentTypeTags(entry_data),
                             GetOr(entry_data, <<"t","a","g","s">>, JList(<<>>))))

\* CommonPhrasesFormatter: the cleaned day topic tag; topic.replace raises
\* AttributeError unless the topic is a str
PhrasesTopicTags(metadata) ==
    LET topic == MetaTopic(metadata)
    IN  IF ~Bool(topic) THEN Ok(<<>>)
        ELSE IF topic.t # "str" THEN Raise
        ELSE LET words == SplitWs(Strip(Replace(Replace(Replace(topic.v,
                              <<"&">>, <<"a","n","d">>), <<" ","&"," ">>, <<" ">>), <<",">>, <<>>)))
             IN  IF words = <<>> THEN Raise
                 ELSE IF Capitalize(words[1]) \in {<<"N","o">>, <<"T","o","p","i","c">>} THEN Ok(<<>>)
                 ELSE Ok(<< Capitalize(words[1]) >>)

\* CommonPhrasesFormatter._generate_simple_tags (both classes), before the join
PhrasesTagList(entry_data, metadata) ==
    LET topic == PhrasesTopicTags(metadata)
    IN  IF topic.raised THEN Raise
        ELSE Ok(AddEntryTags(WeekTags(metadata) \o << <<"P","h","r","a","s","e","s">> >> \o topic.v,
                             GetOr(entry_data, <<"T","a","g","s">>,
                                   GetOr(entry_data, <<"t","a","g","s">>, JList(<<>>)))))

\* self._generate_simple_tags(entry_data, metadata): ",".join(tags)
_generate_simple_tags(cls, entry_data, metadata) ==
    Only({ IF tags.raised THEN Raise ELSE Ok(Join(tags.v, <<",">>)) :
           tags \in {IF cls = AnkiAppCls THEN AnkiAppTagList(entry_data, metadata)
                     ELSE PhrasesTagList(entry_data, metadata)} })

\* the Dutch connection shown inline after the native translation
DutchConnection(f, entry_data) ==
    IF Has(entry_data, <<"d","u","t","c","h","_","c","o","n","n","e","c","t","i","o","n">>)
    THEN _safe_get_string(entry_data, JStr(<<"d","u","t","c","h","_","c","o","n","n","e","c","t","i","o","n">>), <<>>)
    ELSE IF Bool(GetOr(f.config, <<"s","h","o","w","_","c","o","n","n","e","c","t","i","o","n","s">>, JBool(TRUE)))
    THEN LET connections == _safe_get_dict(entry_data, <<"c","o","n","n","e","c","t","i","o","n","s">>)
         IN  IF Has(connections, <<"d","u","t","c","h">>)
             THEN _safe_get_string(connections, JStr(<<"d","u","t","c","h">>), <<>>)
             ELSE <<>>
    ELSE <<>>

\* the role's value wrapped as one piece of the Back field, [] when it resolves empty
Piece(fm, entry_data, role, before, after) ==
    LET text == _safe_get_string(entry_data, Get(fm, role), <<>>)
    IN  IF text # <<>> THEN << before \o text \o after >> ELSE <<>>

\* _format_clean_back appending the notes before the pronunciation
AnkiAppBack_reordered(f, fm, entry_data, metadata) ==
    IF \E role \in {<<"n","a","t","i","v","e">>, <<"e","x","a","m","p","l","e">>, <<"p","r","o","n","u","n","c","i","a","t","i","o","n">>, <<"n","o","t","e","s">>} : ~Has(fm, role)
    THEN Raise
    ELSE LET native == _safe_get_string(entry_data, Get(fm, <<"n","a","t","i","v","e">>), <<>>)
             dutch_connection == DutchConnection(f, entry_data)
             main == IF native = <<>> THEN <<>>
                     ELSE IF dutch_connection # <<>>
                     THEN << native \o <<" ","(","U+1F1F3","U+1F1F1"," ","D","u","t","c","h",":"," ">> \o dutch_connection \o <<")">> >>
                     ELSE << native >>
         IN  Ok(Join(main
                     \o Piece(fm, entry_data, <<"e","x","a","m","p","l","e">>, <<"<","i",">","E","x","a","m","p","l","e",":"," ">>, <<"<","/","i",">">>)
                     \o Piece(fm, entry_data, <<"n","o","t","e","s">>, <<"<","i",">","U+1F4DD"," ","N","o","t","e",":"," ">>, <<"<","/","i",">">>)
                     \o Piece(fm, entry_data, <<"p","r","o","n","u","n","c","i","a","t","i","o","n">>, <<"<","i",">","U+1F50A"," ","P","r","o","n","u","n","c","i","a","t","i","o","n",":"," ">>, <<"<","/","i",">">>),
                     <<"<","b","r",">","<","b","r",">">>))

\* AnkiAppFormatter._format_clean_back (KeyError when a role has no mapping)
AnkiAppBack(f, fm, entry_data, metadata) ==
    IF \E role \in {<<"n","a","t","i","v","e">>, <<"e","x","a","m","p","l","e">>, <<"p","r","o","n","u","n","c","i","a","t","i","o","n">>, <<"n","o","t","e","s">>} : ~Has(fm, role)
    THEN Raise
    ELSE LET native == _safe_get_string(entry_data, Get(fm, <<"n","a","t","i","v","e">>), <<>>)
             dutch_connection == DutchConnection(f, entry_data)
             main == IF native = <<>> THEN <<>>
                     ELSE IF dutch_connection # <<>>
                     THEN << native \o <<" ","(","U+1F1F3","U+1F1F1"," ","D","u","t","c","h",":"," ">> \o dutch_connection \o <<")">> >>
                     ELSE << native >>
         IN  Ok(Join(main
                     \o Piece(fm, entry_data, <<"e","x","a","m","p","l","e">>, <<"<","i",">","E","x","a","m","p","l","e",":"," ">>, <<"<","/","i",">">>)
                     \o Piece(fm, entry_data, <<"p","r","o","n","u","n","c","i","a","t","i","o","n">>, <<"<","i",">","U+1F50A"," ","P","r","o","n","u","n","c","i","a","t","i","o","n",":"," ">>, <<"<","/","i",">">>)
                     \o Piece(fm, entry_data, <<"n","o","t","e","s">>, <<"<","i",">","U+1F4DD"," ","N","o","t","e",":"," ">>, <<"<","/","i",">">>),
                     <<"<","b","r",">","<","b","r",">">>))

\* CommonPhrasesFormatter._format_clean_back (both classes)
PhrasesBack(f, fm, entry_data, metadata) ==
    IF \E role \in {<<"n","a","t","i","v","e">>, <<"n","o","t","e","s">>} : ~Has(fm, role) THEN Raise
    ELSE LET native == _safe_get_string(entry_data, Get(fm, <<"n","a","t","i","v","e">>), <<>>)
             prefix == GetOr(f.config, <<"p","h","r","a","s","e","_","c","a","t","e","g","o","r","y","_","p","r","e","f","i","x">>, JStr(<<"U+1F4AC">>))
             main == IF native = <<>> THEN <<>>
                     ELSE IF Bool(GetOr(f.config, <<"s","h","o","w","_","c","o","n","t","e","x","t","_","i","n","d","i","c","a","t","o","r","s">>, JBool(TRUE)))
                     THEN << PyStr(prefix) \o <<" ">> \o native >>
                     ELSE << native >>
             day_topic == MetaTopic(metadata)
             context == IF Bool(day_topic) /\ day_topic # JStr(<<"N","o"," ","t","o","p","i","c">>)
                        THEN << <<"<","i",">","C","o","n","t","e","x","t",":"," ">> \o PyStr(day_topic) \o <<"<","/","i",">">> >>
                        ELSE <<>>
             week == MetaWeek(metadata)
             level == IF Bool(week)
                      THEN << <<"<","i",">","L","e","v","e","l",":"," ","A","1"," ","W","e","e","k"," ">> \o PyStr(week) \o <<"<","/","i",">">> >>
                      ELSE <<>>
         IN  Ok(Join(main \o context
                     \o Piece(fm, entry_data, <<"n","o","t","e","s">>, <<"<","i",">","U+1F4DD"," ">>, <<"<","/","i",">">>)
                     \o level,
                     <<"<","b","r",">","<","b","r",">">>))

\* self._format_clean_back(entry_data, metadata)
_format_clean_back(f, fm, entry_data, metadata) ==
    IF f.cls = AnkiAppCls THEN AnkiAppBack(f, fm, entry_data, metadata)
    ELSE PhrasesBack(f, fm, entry_data, metadata)

-----------------------------------------------------------------------------
(* CardFormatter family: get_headers and format_entry.  format_entry       *)
(* returns [raised, row, fm]: whether it raised, the row (a sequence of    *)
(* values) and the instance's field_mappings after the call.               *)

\* get_headers with the two empty trailing headers of the AnkiApp layout left out
get_headers_short(f) ==
    CASE IsAnkiAppFamily(f.cls) -> <<<<"F","r","o","n","t">>, <<"B","a","c","k">>, <<"T","a","g">>>>
      [] f.cls = AnkiCls        -> <<<<"F","r","o","n","t">>, <<"B","a","c","k">>, <<"T","a","g","s">>>>
      [] f.cls = QuizletCls     -> <<>>
      [] f.cls = GenericCls     ->
           LET custom_headers == GetOr(f.config, <<"h","e","a","d","e","r","s">>,
                                       JList(<<JStr(<<"T","e","r","m">>), JStr(<<"D","e","f","i","n","i","t","i","o","n">>)>>)).v
           IN  [i \in 1..Len(custom_headers) |-> custom_headers[i].v]

\* formatter.get_headers()
get_headers(f) ==
    CASE IsAnkiAppFamily(f.cls) -> <<<<"F","r","o","n","t">>, <<"B","a","c","k">>, <<"T","a","g">>, <<>>, <<>>>>
      [] f.cls = AnkiCls        -> <<<<"F","r","o","n","t">>, <<"B","a","c","k">>, <<"T","a","g","s">>>>
      [] f.cls = QuizletCls     -> <<>>
      [] f.cls = GenericCls     ->
           LET custom_headers == GetOr(f.config, <<"h","e","a","d","e","r","s">>,
                                       JList(<<JStr(<<"T","e","r","m">>), JStr(<<"D","e","f","i","n","i","t","i","o","n">>)>>)).v
           IN  [i \in 1..Len(custom_headers) |-> custom_headers[i].v]

Returned(row, fm) == [raised |-> FALSE, row |-> row, fm |-> fm]
Raised(fm)        == [raised |-> TRUE,  row |-> <<>>, fm |-> fm]

\* metadata or {}
OrEmpty(metadata) == IF Bool(metadata) THEN metadata ELSE JDict(<<>>)

\* AnkiAppFormatter.format_entry with the front resolved through the mappings as they
\* were before this call's detection
AnkiAppFormatEntry_stale(f, entry_data, metadata) ==
    Only({ IF st.raised \/ ~Has(st.fm, <<"t","a","r","g","e","t">>) THEN Raised(st.fm)
           ELSE Only({ IF back.raised \/ tags.raised THEN Raised(st.fm)
                       ELSE Returned(<<JStr(_safe_get_string(entry_data,
                                                             Get(f.field_mappings, <<"t","a","r","g","e","t">>),
                                                             <<"U","n","k","n","o","w","n">>)),
                                       JStr(back.v), JStr(tags.v), JStr(<<>>), JStr(<<>>)>>,
                                     st.fm) :
                       back \in {_format_clean_back(f, st.fm, entry_data, OrEmpty(metadata))},
                       tags \in {_generate_simple_tags(f.cls, entry_data, OrEmpty(metadata))} }) :
           st \in {_detect_and_update_field_mappings(f, entry_data)} })

\* AnkiAppFormatter.format_entry (inherited by both CommonPhrasesFormatter classes)
AnkiAppFormatEntry(f, entry_data, metadata) ==
    Only({ IF st.raised \/ ~Has(st.fm, <<"t","a","r","g","e","t">>) THEN Raised(st.fm)
           ELSE Only({ IF back.raised \/ tags.raised THEN Raised(st.fm)
                       ELSE Returned(<<JStr(_safe_get_string(entry_data, Get(st.fm, <<"t","a","r","g","e","t">>),
                                                             <<"U","n","k","n","o","w","n">>)),
                                       JStr(back.v), JStr(tags.v), JStr(<<>>), JStr(<<>>)>>,
                                     st.fm) :
                       back \in {_format_clean_back(f, st.fm, entry_data, OrEmpty(metadata))},
                       tags \in {_generate_simple_tags(f.cls, entry_data, OrEmpty(metadata))} }) :
           st \in {_detect_and_update_field_mappings(f, entry_data)} })

\* HTMLCardFormatter.format_bold
format_bold(f, text) ==
    IF Bool(GetOr(f.config, <<"u","s","e","_","h","t","m","l">>, JBool(TRUE)))
    THEN <<"<","b",">">> \o text \o <<"<","/","b",">">>
    ELSE <<"*","*">> \o text \o <<"*","*">>

\* HTMLCardFormatter.format_line_break
format_line_break(f) ==
    IF Bool(GetOr(f.config, <<"u","s","e","_","h","t","m","l">>, JBool(TRUE))) THEN <<"<","b","r",">">> ELSE <<"\n">>

\* AnkiFormatter.format_entry (" ".join raises TypeError on a content_type that is no str)
AnkiFormatEntry(f, entry_data, metadata) ==
    IF entry_data.t # "dict" THEN Raised(f.field_mappings)
    ELSE LET front == GetOr(entry_data, <<"t","a","r","g","e","t">>, JStr(<<>>))
             native == GetOr(entry_data, <<"n","a","t","i","v","e">>, JStr(<<>>))
             example == GetOr(entry_data, <<"e","x","a","m","p","l","e">>, JStr(<<>>))
             parts == (IF Bool(native) THEN << format_bold(f, PyStr(native)) >> ELSE <<>>)
                      \o (IF Bool(example)
                          THEN << format_bold(f, <<"E","x","a","m","p","l","e",":">>) \o <<" ">> \o PyStr(example) >>
                          ELSE <<>>)
             back == Join(parts, format_line_break(f))
             unit == GetOr(OrEmpty(metadata), <<"u","n","i","t">>, JNone)
             typed == Has(entry_data, <<"c","o","n","t","e","n","t","_","t","y","p","e">>)
         IN  IF typed /\ Get(entry_data, <<"c","o","n","t","e","n","t","_","t","y","p","e">>).t # "str"
             THEN Raised(f.field_mappings)
             ELSE LET tags_list ==
                          (IF typed THEN << Get(entry_data, <<"c","o","n","t","e","n","t","_","t","y","p","e">>).v >> ELSE <<>>)
                          \o (IF Bool(unit) THEN << <<"U","n","i","t">> \o PyStr(unit) >> ELSE <<>>)
                  IN  Returned(<<front, JStr(back), JStr(Join(tags_list, <<" ">>))>>,
                               f.field_mappings)

\* QuizletFormatter.format_entry (" | ".join raises TypeError on a native that is no str)
QuizletFormatEntry(f, entry_data, metadata) ==
    IF entry_data.t # "dict" THEN Raised(f.field_mappings)
    ELSE LET term == GetOr(entry_data, <<"t","a","r","g","e","t">>, JStr(<<>>))
             native == GetOr(entry_data, <<"n","a","t","i","v","e">>, JStr(<<>>))
             example == GetOr(entry_data, <<"e","x","a","m","p","l","e">>, JStr(<<>>))
         IN  IF Bool(native) /\ native.t # "str" THEN Raised(f.field_mappings)
             ELSE LET definition_parts ==
                          (IF Bool(native) THEN << native.v >> ELSE <<>>)
                          \o (IF Bool(example) THEN << <<"E","x","a","m","p","l","e",":"," ">> \o PyStr(example) >>
                              ELSE <<>>)
                  IN  Returned(<<term, JStr(Join(definition_parts, <<" ","|"," ">>))>>,
                               f.field_mappings)

\* GenericFormatter.format_entry: one column per custom header
GenericFormatEntry(f, entry_data, metadata) ==
    IF entry_data.t # "dict" THEN Raised(f.field_mappings)
    ELSE LET custom_headers == get_headers(f)
             field_mapping == GetOr(f.config, <<"f","i","e","l","d","_","m","a","p","p","i","n","g">>,
                                  JDict(<< <<<<"f","r","o","n","t">>, JStr(<<"t","a","r","g","e","t">>)>>,
                                           <<<<"b","a","c","k">>, JStr(<<"n","a","t","i","v","e">>)>> >>))
             Column(header) ==
                 LET field_key == GetOr(field_mapping, Lower(header), JStr(Lower(header)))
                 IN  JStr(PyStr(GetOr(entry_data, field_key.v, JStr(<<>>))))
         IN  Returned([i \in 1..Len(custom_headers) |-> Column(custom_headers[i])],
                      f.field_mappings)

\* formatter.format_entry(entry_data, metadata)
format_entry(f, entry_data, metadata) ==
    CASE IsAnkiAppFamily(f.cls) -> AnkiAppFormatEntry(f, entry_data, metadata)
      [] f.cls = AnkiCls        -> AnkiFormatEntry(f, entry_data, metadata)
      [] f.cls = QuizletCls     -> QuizletFormatEntry(f, entry_data, metadata)
      [] f.cls = GenericCls     -> GenericFormatEntry(f, entry_data, metadata)

\* CardFormatter.validate_entry: all(field in entry_data and entry_data[field] ...);
\* on a str entry 'in' is the substring test and entry_data[field] raises TypeError
validate_entry(f, entry_data) ==
    LET required_fields ==
            GetOr(f.config, <<"r","e","q","u","i","r","e","d","_","f","i","e","l","d","s">>, JList(<<JStr(<<"t","a","r","g","e","t">>), JStr(<<"n","a","t","i","v","e">>)>>)).v
    IN  IF entry_data.t = "dict"
        THEN [raised |-> FALSE,
              v |-> \A i \in 1..Len(required_fields) :
                        /\ Has(entry_data, required_fields[i].v)
                        /\ Bool(Get(entry_data, required_fields[i].v))]
        ELSE IF required_fields = <<>> THEN [raised |-> FALSE, v |-> TRUE]
        ELSE IF Contains(entry_data.v, required_fields[1].v) THEN [raised |-> TRUE, v |-> FALSE]
        ELSE [raised |-> FALSE, v |-> FALSE]

-----------------------------------------------------------------------------
(* CsvEmitter: field serialisation                                         *)

\* field.replace('"', '""')
DoubleQuotes(s) == Replace(s, <<"\"">>, <<"\"","\"">>)

\* csv.writer (excel dialect, QUOTE_MINIMAL) on one field: quoted when it holds the
\* delimiter, the quote character or a line terminator character
WriterField(x) ==
    LET s == IF x.t = "none" THEN <<>> ELSE PyStr(x)
    IN  IF HasAnyChar(s, {",", "\"", "\n", "\r"})
        THEN <<"\"">> \o DoubleQuotes(s) \o <<"\"">>
        ELSE s

\* writer.writerow(row): the fields as written on the line (a row that is one
\* empty field is written as a pair of quotes)
writerow(row) ==
    IF Len(row) = 1 /\ WriterField(row[1]) = <<>> THEN << <<"\"", "\"">> >>
    ELSE [i \in 1..Len(row) |-> WriterField(row[i])]

\* MainWindow._escape_csv_row on one field
EscapeField(x) ==
    LET field_str == DoubleQuotes(IF x.t = "none" THEN <<>> ELSE PyStr(x))
    IN  IF HasAnyChar(field_str, {",", "\"", "\n", "\r", "<", ">"})
        THEN <<"\"">> \o field_str \o <<"\"">>
        ELSE field_str

\* MainWindow._escape_csv_row: ','.join(escaped_fields)
_escape_csv_row(row) == Join([i \in 1..Len(row) |-> EscapeField(row[i])], <<",">>)

\* ','.join(f'"{header}"' for header in headers)
HeaderLine(headers) ==
    Join([i \in 1..Len(headers) |-> <<"\"">> \o headers[i] \o <<"\"">>], <<",">>)

-----------------------------------------------------------------------------
(* ContentTreeWalker: GenericLanguageCSVGenerator._extract_entries.        *)
(* The walk returns [raised, v]: v is the list of <<entry, metadata>>.     *)

\* _detect_content_type(data) without a source path
\* (data.get('days', {}).values() raises AttributeError when 'days' is no dict; on a
\* root that is no dict every path past the 'phrases' in str(data) test ends in a
\* TypeError of the 'in' test or an AttributeError of data.get)
_detect_content_type(d) ==
    LET data_str == Lower(PyStr(d))
        days == IF d.t = "dict" THEN GetOr(d, <<"d","a","y","s">>, JDict(<<>>)) ELSE JNone
    IN  IF Contains(data_str, <<"p","h","r","a","s","e","s">>) THEN Ok(<<"p","h","r","a","s","e","s">>)
        ELSE IF d.t # "dict" THEN Raise
        ELSE IF Has(d, <<"d","a","y","s">>) /\ days.t # "dict" THEN Raise
        ELSE IF \/ Has(d, <<"d","a","y","s">>)
                   /\ \E i \in 1..Len(days.v) : Contains(PyStr(days.v[i][2]), <<"p","h","r","a","s","e","s">>)
                \/ Has(d, <<"t","o","t","a","l","_","p","h","r","a","s","e","s">>)
                \/ GetOr(d, <<"c","o","n","t","e","n","t","_","t","y","p","e">>, JNone) = JStr(<<"p","h","r","a","s","e","s">>)
        THEN Ok(<<"p","h","r","a","s","e","s">>)
        ELSE IF \/ Contains(data_str, <<"g","r","a","m","m","a","r">>)
                \/ GetOr(d, <<"c","o","n","t","e","n","t","_","t","y","p","e">>, JNone) = JStr(<<"g","r","a","m","m","a","r">>)
        THEN Ok(<<"g","r","a","m","m","a","r">>)
        ELSE Ok(<<"v","o","c","a","b","u","l","a","r","y">>)

RECURSIVE DetectFromPath(_)
\* the content type named by the first part of the source path that names one,
\* <<>> when no part does
DetectFromPath(parts) ==
    IF parts = <<>> THEN <<>>
    ELSE LET part_lower == Lower(parts[1])
         IN  IF Contains(part_lower, <<"p","h","r","a","s","e">>) THEN <<"p","h","r","a","s","e","s">>
             ELSE IF Contains(part_lower, <<"g","r","a","m","m","a","r">>) THEN <<"g","r","a","m","m","a","r">>
             ELSE IF Contains(part_lower, <<"v","o","c","a","b","u","l","a","r","y">>) THEN <<"v","o","c","a","b","u","l","a","r","y">>
             ELSE DetectFromPath(Tail(parts))

\* _detect_content_type(data, source_path): the path is looked at first
DetectContentType(d, path_parts) ==
    IF DetectFromPath(path_parts) # <<>> THEN Ok(DetectFromPath(path_parts))
    ELSE _detect_content_type(d)

\* _extract_number_from_key: the first run of digits of the key, 1 when it has none
_extract_number_from_key(key) ==
    LET digits == {i \in 1..Len(key) : IsDigit(key[i])}
    IN  IF digits = {} THEN 1
        ELSE LET first == CHOOSE i \in digits : \A j \in digits : i <= j
                 last == CHOOSE i \in first..Len(key) :
                            /\ \A j \in first..i : IsDigit(key[j])
                            /\ (i = Len(key) \/ ~IsDigit(key[i + 1]))
             IN  DigitsVal(SubSeq(key, first, last))

\* the base metadata taken from the top level of the document
BaseMetadata(d, content_type) ==
    JDict(<< <<<<"t","a","r","g","e","t","_","l","a","n","g","u","a","g","e">>,
               GetOr(d, <<"t","a","r","g","e","t","_","l","a","n","g","u","a","g","e">>, GetOr(d, <<"l","a","n","g","u","a","g","e">>, JStr(<<>>)))>>,
             <<<<"n","a","t","i","v","e","_","l","a","n","g","u","a","g","e">>, GetOr(d, <<"n","a","t","i","v","e","_","l","a","n","g","u","a","g","e">>, JStr(<<"e","n","g","l","i","s","h">>))>>,
             <<<<"c","o","n","t","e","n","t","_","t","y","p","e">>, JStr(content_type)>>,
             <<<<"t","o","p","i","c">>, GetOr(d, <<"t","o","p","i","c">>, GetOr(d, <<"t","i","t","l","e">>, JStr(<<>>)))>>,
             <<<<"l","e","v","e","l">>, GetOr(d, <<"l","e","v","e","l">>, GetOr(d, <<"d","i","f","f","i","c","u","l","t","y">>, JStr(<<>>)))>>,
             <<<<"s","o","u","r","c","e">>, GetOr(d, <<"s","o","u","r","c","e">>, JStr(<<>>))>>,
             <<<<"w","e","e","k">>, GetOr(d, <<"w","e","e","k">>, JInt(1))>> >>)

\* for entry in x: the items a Python for loop visits (TypeError when x is not iterable)
Iterate(x) ==
    CASE x.t = "list" -> [raised |-> FALSE, v |-> x.v]
      [] x.t = "str"  -> [raised |-> FALSE, v |-> [i \in 1..Len(x.v) |-> JStr(<<x.v[i]>>)]]
      [] x.t = "dict" -> [raised |-> FALSE, v |-> [i \in 1..Len(x.v) |-> JStr(x.v[i][1])]]
      [] OTHER        -> [raised |-> TRUE, v |-> <<>>]

\* for entry in entries: entries_with_metadata.append((entry, metadata.copy()))
EmitAll(entries, metadata) ==
    LET it == Iterate(entries)
    IN  IF it.raised THEN Raise
        ELSE Ok([i \in 1..Len(it.v) |-> <<it.v[i], metadata>>])

\* the value of the first key of keys that the node holds, [] when it holds none
FirstCollection(node, keys) ==
    LET hit == {i \in 1..Len(keys) : Has(node, keys[i])}
    IN  IF hit = {} THEN JList(<<>>)
        ELSE Get(node, keys[CHOOSE i \in hit : \A j \in hit : i <= j])

RECURSIVE ConcatResults(_)
\* the results concatenated in order; the first raise aborts the whole
ConcatResults(rs) ==
    IF rs = <<>> THEN Ok(<<>>)
    ELSE IF rs[1].raised THEN Raise
    ELSE LET rest == ConcatResults(Tail(rs))
         IN  IF rest.raised THEN Raise ELSE Ok(rs[1].v \o rest.v)

\* the collection keys inside a unit or a section, in priority order
UnitCollectionKeys == <<<<"p","h","r","a","s","e","s">>, <<"e","n","t","r","i","e","s">>, <<"w","o","r","d","s">>, <<"i","t","e","m","s">>>>

\* one sub-section (a day within a week, ...) of a unit
WalkSection(sub_key, sub_data, unit_metadata) ==
    IF sub_data.t # "dict" THEN Raise
    ELSE LET sub_metadata ==
                 Put(Put(Put(unit_metadata,
                     <<"s","e","c","t","i","o","n">>, JInt(_extract_number_from_key(sub_key))),
                     <<"s","e","c","t","i","o","n","_","n","a","m","e">>, JStr(sub_key)),
                     <<"s","e","c","t","i","o","n","_","t","o","p","i","c">>,
                         GetOr(sub_data, <<"t","o","p","i","c">>, GetOr(sub_data, <<"t","i","t","l","e">>, JStr(<<>>))))
         IN  EmitAll(FirstCollection(sub_data, UnitCollectionKeys), sub_metadata)

\* one sub-container of a unit, when the unit holds it (.items() needs a dict)
WalkSubContainer(unit_data, sub_container_key, unit_metadata) ==
    IF ~Has(unit_data, sub_container_key) THEN Ok(<<>>)
    ELSE LET sub_container == Get(unit_data, sub_container_key)
         IN  IF sub_container.t # "dict" THEN Raise
             ELSE ConcatResults([i \in 1..Len(sub_container.v) |->
                      WalkSection(sub_container.v[i][1], sub_container.v[i][2],
                                  unit_metadata)])

\* one unit of the container: its direct entries, then every sub-container it holds
WalkUnit(unit_key, unit_data, base_metadata) ==
    IF unit_data.t # "dict" THEN Raise
    ELSE LET unit_metadata ==
                 Put(Put(Put(base_metadata,
                     <<"u","n","i","t">>, JInt(_extract_number_from_key(unit_key))),
                     <<"u","n","i","t","_","n","a","m","e">>, JStr(unit_key)),
                     <<"u","n","i","t","_","t","o","p","i","c">>,
                         GetOr(unit_data, <<"t","o","p","i","c">>, GetOr(unit_data, <<"t","i","t","l","e">>, JStr(<<>>))))
         IN  ConcatResults(<<
                 EmitAll(FirstCollection(unit_data, UnitCollectionKeys), unit_metadata),
                 WalkSubContainer(unit_data, <<"d","a","y","s">>, unit_metadata),
                 WalkSubContainer(unit_data, <<"l","e","s","s","o","n","s">>, unit_metadata),
                 WalkSubContainer(unit_data, <<"s","e","c","t","i","o","n","s">>, unit_metadata) >>)

\* the container keys of the root, in priority order
ContainerKeys == <<<<"u","n","i","t","s">>, <<"w","e","e","k","s">>, <<"d","a","y","s">>, <<"l","e","s","s","o","n","s">>, <<"s","e","c","t","i","o","n","s">>, <<"c","h","a","p","t","e","r","s">>>>

RECURSIVE WalkUnitsShared(_, _)
\* the units walked with one metadata dict that every unit and sub-section updates in
\* place: a unit starts from the metadata the unit before it left behind
WalkUnitsShared(units, metadata) ==
    IF units = <<>> THEN Ok(<<>>)
    ELSE LET r == WalkUnit(units[1][1], units[1][2], metadata)
         IN  IF r.raised THEN Raise
             ELSE LET left == IF r.v = <<>> THEN metadata ELSE r.v[Len(r.v)][2]
                      rest == WalkUnitsShared(Tail(units), left)
                  IN  IF rest.raised THEN Raise ELSE Ok(r.v \o rest.v)

\* the nested branch without the copies of the metadata
WalkContainers_shared(d, base_metadata) ==
    LET hit == {i \in 1..Len(ContainerKeys) : Has(d, ContainerKeys[i])}
    IN  IF hit = {} THEN Ok(<<>>)
        ELSE LET container == Get(d, ContainerKeys[CHOOSE i \in hit : \A j \in hit : i <= j])
             IN  IF container.t # "dict" THEN Raise
                 ELSE WalkUnitsShared(container.v, base_metadata)

\* the nested branch: only the first container key the root holds is walked
WalkContainers(d, base_metadata) ==
    LET hit == {i \in 1..Len(ContainerKeys) : Has(d, ContainerKeys[i])}
    IN  IF hit = {} THEN Ok(<<>>)
        ELSE LET container == Get(d, ContainerKeys[CHOOSE i \in hit : \A j \in hit : i <= j])
             IN  IF container.t # "dict" THEN Raise
                 ELSE ConcatResults([i \in 1..Len(container.v) |->
                          WalkUnit(container.v[i][1], container.v[i][2], base_metadata)])

\* GenericLanguageCSVGenerator._extract_entries
_extract_entries(d) ==
    IF d.t # "dict" THEN Raise
    ELSE LET content_type == _detect_content_type(d)
         IN  IF content_type.raised THEN Raise
             ELSE LET base_metadata == BaseMetadata(d, content_type.v)
                  IN  IF Has(d, <<"e","n","t","r","i","e","s">>) THEN EmitAll(Get(d, <<"e","n","t","r","i","e","s">>), base_metadata)
                      ELSE IF Has(d, <<"w","o","r","d","s">>) THEN EmitAll(Get(d, <<"w","o","r","d","s">>), base_metadata)
                      ELSE IF Has(d, <<"i","t","e","m","s">>) THEN EmitAll(Get(d, <<"i","t","e","m","s">>), base_metadata)
                      ELSE WalkContainers(d, base_metadata)

-----------------------------------------------------------------------------
(* DataCache: an in-memory cache with least-recently-used eviction.  The    *)
(* cache is a JDict, access_order a sequence of keys; an operation returns *)
(* [raised, cache, access_order, value].                                   *)

\* list.remove(x): the list without the first occurrence of x
ListRemove(lst, x) ==
    LET i == CHOOSE i \in 1..Len(lst) : lst[i] = x /\ \A j \in 1..(i - 1) : lst[j] # x
    IN  SubSeq(lst, 1, i - 1) \o SubSeq(lst, i + 1, Len(lst))

\* del d[k]
Del(d, k) == JDict(SelectSeq(d.v, LAMBDA pair : pair[1] # k))

CacheResult(raised, cache, access_order, value) ==
    [raised |-> raised, cache |-> cache, access_order |-> access_order, value |-> value]

\* DataCache.get(key) (list.remove raises ValueError when the key is not listed)
DataCache_get(cache, access_order, key) ==
    IF Has(cache, key)
    THEN IF ~InList(access_order, key) THEN CacheResult(TRUE, cache, access_order, JNone)
         ELSE CacheResult(FALSE, cache, Append(ListRemove(access_order, key), key),
                          Get(cache, key))
    ELSE CacheResult(FALSE, cache, access_order, JNone)

\* DataCache.set that leaves the place of a key it already holds in access_order
DataCache_set_norefresh(cache, access_order, max_size, key, value) ==
    IF Has(cache, key)
    THEN CacheResult(FALSE, Put(cache, key, value), Append(access_order, key), JNone)
    ELSE IF Len(cache.v) >= max_size
    THEN IF access_order = <<>> THEN CacheResult(TRUE, cache, access_order, JNone)
         ELSE IF ~Has(cache, access_order[1])
         THEN CacheResult(TRUE, cache, Tail(access_order), JNone)
         ELSE CacheResult(FALSE, Put(Del(cache, access_order[1]), key, value),
                          Append(Tail(access_order), key), JNone)
    ELSE CacheResult(FALSE, Put(cache, key, value), Append(access_order, key), JNone)

\* DataCache.set(key, value) (pop(0) raises IndexError on an empty list, del raises
\* KeyError when the popped key is not cached)
DataCache_set(cache, access_order, max_size, key, value) ==
    IF Has(cache, key)
    THEN IF ~InList(access_order, key) THEN CacheResult(TRUE, cache, access_order, JNone)
         ELSE CacheResult(FALSE, Put(cache, key, value),
                          Append(ListRemove(access_order, key), key), JNone)
    ELSE IF Len(cache.v) >= max_size
    THEN IF access_order = <<>> THEN CacheResult(TRUE, cache, access_order, JNone)
         ELSE IF ~Has(cache, access_order[1])
         THEN CacheResult(TRUE, cache, Tail(access_order), JNone)
         ELSE CacheResult(FALSE, Put(Del(cache, access_order[1]), key, value),
                          Append(Tail(access_order), key), JNone)
    ELSE CacheResult(FALSE, Put(cache, key, value), Append(access_order, key), JNone)

\* DataCache.clear()
DataCache_clear(cache, access_order) == CacheResult(FALSE, JDict(<<>>), <<>>, JNone)

RECURSIVE RemoveKeys(_, _, _)
\* for key in keys_to_remove: del cache[key]; the key leaves access_order when listed
RemoveKeys(cache, access_order, keys_to_remove) ==
    IF keys_to_remove = <<>> THEN CacheResult(FALSE, cache, access_order, JNone)
    ELSE RemoveKeys(Del(cache, keys_to_remove[1]),
                    IF InList(access_order, keys_to_remove[1])
                    THEN ListRemove(access_order, keys_to_remove[1]) ELSE access_order,
                    Tail(keys_to_remove))

\* the cache part of DataManager.reload_content_type(content_type): every key that
\* starts with content_type + ':' is dropped
ReloadDrop(cache, access_order, content_type) ==
    RemoveKeys(cache, access_order,
               SelectSeq(Keys(cache), LAMBDA key : MatchAt(key, content_type \o <<":">>, 1)))

-----------------------------------------------------------------------------
(* Bounds and input sets                                                   *)

\* longest batch of entries in a document or a preview selection
MaxBatch == 2

\* longest field text given to the serialisers
MaxFieldLen == 3

\* Seq(S) up to length n
RECURSIVE SeqUpTo(_, _)
SeqUpTo(S, n) ==
    IF n = 0 THEN {<<>>}
    ELSE LET shorter == SeqUpTo(S, n - 1)
         IN  shorter \cup {Append(s, x) : s \in {t \in shorter : Len(t) = n - 1}, x \in S}

Entry(pairs) == JDict(pairs)

E_house    == Entry(<< <<<<"t","a","r","g","e","t">>, JStr(<<"d","a","s"," ","H","a","u","s">>)>>, <<<<"n","a","t","i","v","e">>, JStr(<<"t","h","e"," ","h","o","u","s","e">>)>> >>)
E_hallo    == Entry(<< <<<<"g","e","r","m","a","n">>, JStr(<<"H","a","l","l","o">>)>>, <<<<"e","n","g","l","i","s","h">>, JStr(<<"H","e","l","l","o">>)>> >>)
E_both     == Entry(<< <<<<"g","e","r","m","a","n">>, JStr(<<"a">>)>>, <<<<"t","a","r","g","e","t">>, JStr(<<"b">>)>> >>)
E_tags     == Entry(<< <<<<"t","a","r","g","e","t">>, JStr(<<"x">>)>>,
                       <<<<"t","a","g","s">>, JList(<<JStr(<<"a">>), JStr(<<"b">>), JStr(<<"c">>)>>)>> >>)
E_grammar  == Entry(<< <<<<"t","a","r","g","e","t">>, JStr(<<"x">>)>>, <<<<"n","a","t","i","v","e">>, JStr(<<"y">>)>>,
                       <<<<"c","o","n","t","e","n","t","_","t","y","p","e">>, JStr(<<"g","r","a","m","m","a","r">>)>>,
                       <<<<"t","a","g","s">>, JList(<<JStr(<<" ","g","r","a","m","m","a","r">>), JStr(<<"b">>)>>)>> >>)
E_phrase   == Entry(<< <<<<"p","h","r","a","s","e">>, JStr(<<"W","i","e"," ","g","e","h","t","'","s","?">>)>>,
                       <<<<"t","r","a","n","s","l","a","t","i","o","n">>, JStr(<<"H","o","w"," ","a","r","e"," ","y","o","u","?">>)>>,
                       <<<<"T","a","g","s">>, JList(<<JStr(<<"g","r","e","e","t","i","n","g","s">>)>>)>> >>)
E_rich     == Entry(<< <<<<"G","e","r","m","a","n">>, JStr(<<"H","a","u","s">>)>>, <<<<"E","n","g","l","i","s","h">>, JStr(<<"h","o","u","s","e",","," ","h","o","m","e">>)>>,
                       <<<<"e","x","a","m","p","l","e">>, JList(<<JStr(<<"D","a","s"," ","\"","H","a","u","s","\"">>)>>)>>,
                       <<<<"n","o","t","e","s">>, JStr(<<"n">>)>>,
                       <<<<"c","o","n","n","e","c","t","i","o","n","s">>, JDict(<< <<<<"d","u","t","c","h">>, JStr(<<"h","u","i","s">>)>> >>)>>,
                       <<<<"t","a","g","s">>, JStr(<<"n","o","u","n">>)>> >>)
E_spanish  == Entry(<< <<<<"S","p","a","n","i","s","h">>, JStr(<<"l","a"," ","c","a","s","a">>)>>, <<<<"e","n","g","l","i","s","h">>, JStr(<<"t","h","e"," ","h","o","u","s","e">>)>>,
                       <<<<"t","a","r","g","e","t">>, JStr(<<"t">>)>> >>)
E_listy    == Entry(<< <<<<"t","a","r","g","e","t">>, JList(<<JStr(<<"x">>), JStr(<<"y">>)>>)>>,
                       <<<<"n","a","t","i","v","e">>, JList(<<JStr(<<"n">>)>>)>>,
                       <<<<"c","o","n","t","e","n","t","_","t","y","p","e">>, JList(<<JStr(<<"v","e","r","b">>)>>)>> >>)
E_empty    == Entry(<<>>)
E_notdict  == JStr(<<"d","a","s"," ","H","a","u","s">>)

\* the entries given to format_entry
EntrySet == {E_house, E_hallo, E_both, E_phrase, E_rich, E_spanish, E_listy, E_empty,
             E_notdict}

\* the entries of the documents and preview selections
BatchEntrySet == {E_house, E_hallo, E_tags, E_empty, E_notdict}

M_empty     == JDict(<<>>)
M_week      == JDict(<< <<<<"w","e","e","k">>, JInt(1)>>, <<<<"t","o","p","i","c">>, JStr(<<"G","r","e","e","t","i","n","g","s">>)>> >>)
M_section   == JDict(<< <<<<"u","n","i","t">>, JInt(2)>>, <<<<"t","o","p","i","c">>, JStr(<<"B","a","s","i","c","s">>)>>,
                        <<<<"s","e","c","t","i","o","n","_","t","o","p","i","c">>, JStr(<<"g","r","e","e","t","i","n","g","s"," ","&"," ","p","o","l","i","t","e","n","e","s","s",","," ","m","o","r","e">>)>> >>)
M_grammar   == JDict(<< <<<<"w","e","e","k">>, JStr(<<"3">>)>>, <<<<"t","o","p","i","c">>, JStr(<<"g","r","a","m","m","a","r"," ","a","n","d"," ","m","o","r","e">>)>> >>)
M_blank     == JDict(<< <<<<"t","o","p","i","c">>, JStr(<<" ">>)>> >>)

\* the metadata given to format_entry
MetaSet == {M_week, M_blank, JNone}

\* a caller's custom configuration: a target language and list-valued field mappings
CustomConfig ==
    JDict(<< <<<<"t","a","r","g","e","t","_","l","a","n","g","u","a","g","e">>, JStr(<<"S","p","a","n","i","s","h">>)>>,
             <<<<"f","i","e","l","d","_","m","a","p","p","i","n","g","s">>, base_field_mappings>> >>)

\* a GenericFormatter configuration with three columns
GenericConfig ==
    JDict(<< <<<<"h","e","a","d","e","r","s">>, JList(<<JStr(<<"F","r","o","n","t">>), JStr(<<"B","a","c","k">>), JStr(<<"N","o","t","e","s">>)>>)>> >>)

\* the classes and configurations a formatter is constructed with
FormatterSet ==
    {NewFormatter(cls, config) :
        cls \in {AnkiAppCls, PhrasesCls, GenPhrasesCls},
        config \in {JNone, _get_default_config, _get_csv_generator_config, CustomConfig}}
    \cup {NewFormatter(cls, JNone) : cls \in {AnkiCls, QuizletCls, GenericCls}}
    \cup {NewFormatter(GenericCls, GenericConfig)}

\* a configuration that requires the target role only
RequiredConfig ==
    JDict(<< <<<<"r","e","q","u","i","r","e","d","_","f","i","e","l","d","s">>, JList(<<JStr(<<"t","a","r","g","e","t">>)>>)>> >>)

\* the formatters validate_entry is called on
ValidatorSet == FormatterSet \cup {NewFormatter(AnkiAppCls, RequiredConfig)}

\* the custom_config argument of generate_from_data
CustomConfigSet == {JNone, CustomConfig}

DocFlat(es) == JDict(<< <<<<"e","n","t","r","i","e","s">>, JList(es)>> >>)

\* a flat document that also holds a lower-priority collection and root metadata
DocFlatMore(es) ==
    JDict(<< <<<<"t","o","p","i","c">>, JStr(<<"H","o","u","s","i","n","g">>)>>,
             <<<<"w","o","r","d","s">>, JList(<<E_hallo>>)>>,
             <<<<"e","n","t","r","i","e","s">>, JList(es)>>,
             <<<<"w","e","e","k">>, JInt(2)>> >>)

DocA == DocFlat(<<E_house>>)

DocB ==
    JDict(<< <<<<"d","a","y","s">>, JDict(<< <<<<"d","a","y","_","1">>,
                 JDict(<< <<<<"t","o","p","i","c">>, JStr(<<"G","r","e","e","t","i","n","g","s">>)>>,
                          <<<<"w","o","r","d","s">>, JList(<<E_hallo>>)>> >>)>> >>)>>,
             <<<<"w","e","e","k">>, JInt(1)>> >>)

DocWeeks ==
    JDict(<< <<<<"w","e","e","k","s">>, JDict(<<
               <<<<"w","e","e","k","_","3">>, JDict(<<
                   <<<<"t","o","p","i","c">>, JStr(<<"H","o","m","e">>)>>,
                   <<<<"e","n","t","r","i","e","s">>, JList(<<E_tags>>)>>,
                   <<<<"d","a","y","s">>, JDict(<<
                       <<<<"d","a","y","_","1">>, JDict(<< <<<<"t","o","p","i","c">>, JStr(<<"G","r","e","e","t","i","n","g","s">>)>>,
                                            <<<<"w","o","r","d","s">>, JList(<<E_hallo, E_notdict>>)>> >>)>>,
                       <<<<"d","a","y","_","2">>, JDict(<< <<<<"t","i","t","l","e">>, JStr(<<"R","o","o","m","s">>)>>,
                                            <<<<"i","t","e","m","s">>, JList(<<E_house>>)>> >>)>> >>)>> >>)>>,
               <<<<"w","e","e","k","_","4">>, JDict(<< <<<<"w","o","r","d","s">>, JList(<<E_empty>>)>> >>)>> >>)>> >>)

\* a flat document that also holds a days value that is a list
DocFlatDays ==
    JDict(<< <<<<"e","n","t","r","i","e","s">>, JList(<<E_house, E_hallo>>)>>, <<<<"d","a","y","s">>, JList(<<>>)>> >>)

DocNone == JDict(<< <<<<"t","i","t","l","e">>, JStr(<<"n","o","t","h","i","n","g">>)>> >>)

\* a document whose root is a list of entries
DocListRoot == JList(<<E_house>>)

\* a document whose container is a list where an object is expected
DocListContainer == JDict(<< <<<<"w","e","e","k","s">>, JList(<<DocFlat(<<E_house>>)>>)>> >>)

\* a document whose unit is a list where an object is expected
DocListUnit == JDict(<< <<<<"w","e","e","k","s">>, JDict(<< <<<<"w","e","e","k","_","1">>, JList(<<E_house>>)>> >>)>> >>)

\* a document whose collection is a text where a list is expected
DocTextEntries == JDict(<< <<<<"e","n","t","r","i","e","s">>, JStr(<<"a","b">>)>> >>)

\* the documents given to generate_from_data
DocSet ==
    {DocFlat(es) : es \in SeqUpTo(BatchEntrySet, MaxBatch)}
    \cup {DocFlatMore(es) : es \in SeqUpTo(BatchEntrySet, MaxBatch)}
    \cup {DocB, DocWeeks, DocFlatDays, DocNone}
    \cup {DocListRoot, DocListContainer, DocListUnit, DocTextEntries}

\* what open() and json.load find at the path: no file, a text that is no JSON
FileMissing == [t |-> "missing", v |-> <<>>]
FileInvalid == [t |-> "invalid", v |-> <<>>]

\* the files given to generate_from_json_file: their state or their parsed content
FileSet ==
    {FileMissing, FileInvalid, DocA, DocB, DocNone, DocFlat(<<>>), DocFlat(<<E_notdict, E_hallo>>),
     DocListRoot, JList(<<JStr(<<"p","h","r","a","s","e","s">>)>>), JStr(<<"a","b">>), JInt(5)}

\* Path(json_file).parts of the files given to generate_from_json_file
PathSet == {<<<<"a",".","j","s","o","n">>>>, <<<<"P","h","r","a","s","e","s">>, <<"a",".","j","s","o","n">>>>, <<<<"v","o","c","a","b","u","l","a","r","y">>, <<"a",".","j","s","o","n">>>>}

\* the formatter_type argument of generate_from_data
FormatterTypeSet == {<<"a","n","k","i","a","p","p">>, <<"p","h","r","a","s","e","s">>, <<"a","n","k","i">>, <<"q","u","i","z","l","e","t">>, <<"g","e","n","e","r","i","c">>}

\* the characters of the fields given to the serialisers
FieldChars == {"a", ",", "\"", "\n", "<", ">"}

FieldSet == SeqUpTo(FieldChars, MaxFieldLen)

\* most tags an entry carries
MaxTags == 3

\* the entry tags, content types, week parts and topic parts of the tag synthesis inputs
TagValueSet == {JStr(<<"a">>), JStr(<<"b">>), JStr(<<"c">>)}

TagFieldSet ==
    {<<>>} \cup {<< <<<<"t","a","g","s">>, JList(ts)>> >> : ts \in SeqUpTo(TagValueSet, MaxTags)}
    \cup {<< <<<<"t","a","g","s">>, JStr(<<"n","o","u","n">>)>> >>,
          << <<<<"t","a","g","s">>, JList(<<JStr(<<" ","g","r","a","m","m","a","r"," ">>), JStr(<<"a">>), JStr(<<"b">>)>>)>> >>,
          << <<<<"T","a","g","s">>, JList(<<JStr(<<"b">>), JStr(<<"p","h","r","a","s","e","s">>)>>)>>, <<<<"t","a","g","s">>, JStr(<<"n","o","u","n">>)>> >>}

TypeFieldSet ==
    {<<>>, << <<<<"c","o","n","t","e","n","t","_","t","y","p","e">>, JStr(<<"g","r","a","m","m","a","r">>)>> >>,
     << <<<<"c","o","n","t","e","n","t","_","t","y","p","e">>, JStr(<<"V","o","c","a","b","u","l","a","r","y">>)>> >>,
     << <<<<"c","o","n","t","e","n","t","_","t","y","p","e">>, JStr(<<>>)>>, <<<<"t","y","p","e">>, JStr(<<"a">>)>> >>}

WeekMetaSet ==
    {<<>>, << <<<<"w","e","e","k">>, JInt(1)>> >>, << <<<<"w","e","e","k">>, JInt(0)>>, <<<<"u","n","i","t">>, JInt(5)>> >>,
     << <<<<"u","n","i","t">>, JInt(12)>> >>}

TopicMetaSet ==
    {<<>>, << <<<<"t","o","p","i","c">>, JStr(<<"G","r","e","e","t","i","n","g","s">>)>> >>,
     << <<<<"t","o","p","i","c">>, JStr(<<"B","a","s","i","c","s">>)>>, <<<<"s","e","c","t","i","o","n","_","t","o","p","i","c">>, JStr(<<"g","r","e","e","t","i","n","g","s"," ","&"," ","p","o","l","i","t","e","n","e","s","s",","," ","m","o","r","e">>)>> >>,
     << <<<<"t","o","p","i","c">>, JStr(<<"g","r","a","m","m","a","r"," ","a","n","d"," ","m","o","r","e">>)>> >>,
     << <<<<"t","o","p","i","c">>, JList(<<JStr(<<"a"," ","b">>)>>)>> >>,
     << <<<<"s","e","c","t","i","o","n","_","t","o","p","i","c">>, JStr(<<" ">>)>> >>,
     << <<<<"t","o","p","i","c">>, JStr(<<"N","o"," ","t","o","p","i","c">>)>> >>}

\* most generate_from_data calls made one after the other on a generator
MaxDocuments == 2

\* a caller's custom configuration that holds list-valued field mappings only
MappingsConfig == JDict(<< <<<<"f","i","e","l","d","_","m","a","p","p","i","n","g","s">>, base_field_mappings>> >>)

\* the custom_config object the caller builds once and passes to every call
SharedConfigSet == {JNone, CustomConfig, MappingsConfig}

\* the documents of the calls made one after the other
DocumentSet ==
    {DocFlat(<<E_house>>), DocFlat(<<E_both>>), DocFlat(<<E_spanish>>),
     DocFlat(<<E_hallo, E_both>>)}

\* most data rows of a preview content given to the export
MaxExportRows == 2

\* the formatted rows of the preview contents: plain, with a comma, with a quote, with
\* a line break and with an empty line inside a field
ExportRowSet ==
    {<<JStr(<<"a">>), JStr(<<"b">>), JStr(<<"t">>), JStr(<<>>), JStr(<<>>)>>,
     <<JStr(<<"c">>), JStr(<<"d",","," ","e">>), JStr(<<>>), JStr(<<>>), JStr(<<>>)>>,
     <<JStr(<<"f">>), JStr(<<"\"", "g", "\"">>), JStr(<<"t">>), JStr(<<>>), JStr(<<>>)>>,
     <<JStr(<<"h">>), JStr(<<"i", "\n", "j">>), JStr(<<"t">>), JStr(<<>>), JStr(<<>>)>>,
     <<JStr(<<"k">>), JStr(<<"l", "\n", "\n", "m">>), JStr(<<"t">>), JStr(<<>>), JStr(<<>>)>>}

\* most alias names of a role that the entries given to the resolver hold
MaxAliases == 3

\* the alias names the resolver inputs are built from: the head of the base target list
ResolveAliases == SubSeq(Get(base_field_mappings, <<"t","a","r","g","e","t">>).v, 1, MaxAliases)

\* the values an entry holds under an alias name
ResolveValueSet ==
    {JStr(<<>>), JStr(<<"a">>), JStr(<<"b"," ","c">>), JInt(0), JInt(7), JNone,
     JList(<<>>), JList(<<JStr(<<"x">>)>>), JList(<<JStr(<<"x">>), JInt(2)>>),
     JDict(<<>>), JDict(<< <<<<"k">>, JStr(<<"v">>)>> >>)}

RECURSIVE ResolveEntries(_)
\* the entries holding each of the first n alias names with a value, or not at all
ResolveEntries(n) ==
    IF n = 0 THEN {<<>>}
    ELSE LET shorter == ResolveEntries(n - 1)
         IN  shorter \cup {Append(p, <<ResolveAliases[n], x>>) : p \in shorter, x \in ResolveValueSet}

\* the field_keys argument: a role's alias list, one in another order, or a single name
ResolveKeysSet ==
    {JList(ResolveAliases),
     JList([i \in 1..Len(ResolveAliases) |-> ResolveAliases[Len(ResolveAliases) + 1 - i]]),
     JStr(ResolveAliases[1])}

\* the elements of s at the positions in S, in order
Pick(s, S) ==
    LET F[i \in 0..Len(s)] ==
            IF i = 0 THEN <<>> ELSE IF i \in S THEN Append(F[i - 1], s[i]) ELSE F[i - 1]
    IN  F[Len(s)]

Reverse(s) == [i \in 1..Len(s) |-> s[Len(s) + 1 - i]]

\* the objects holding some of the keys of parts, declared in that order or in the
\* opposite order
Declaring(parts) ==
    {JDict(Pick(parts, S)) : S \in SUBSET (1..Len(parts))}
    \cup {JDict(Reverse(Pick(parts, S))) : S \in SUBSET (1..Len(parts))}

\* an entry that its text tells apart from every other entry of its document
Mk(c) == Entry(<< <<<<"t","a","r","g","e","t">>, JStr(<<c>>)>> >>)

\* what the root of a document may declare: collections, containers, a week
WalkRootParts ==
    << <<<<"p","h","r","a","s","e","s">>, JList(<<Mk("p")>>)>>,
       <<<<"i","t","e","m","s">>, JList(<<Mk("i")>>)>>,
       <<<<"w","o","r","d","s">>, JList(<<Mk("w"), Mk("x")>>)>>,
       <<<<"e","n","t","r","i","e","s">>, JList(<<Mk("e")>>)>>,
       <<<<"d","a","y","s">>, JDict(<< <<<<"d","a","y","_","1">>, JDict(<< <<<<"w","o","r","d","s">>, JList(<<Mk("d")>>)>> >>)>> >>)>>,
       <<<<"w","e","e","k","s">>, JDict(<< <<<<"w","e","e","k","_","3">>, JDict(<< <<<<"e","n","t","r","i","e","s">>, JList(<<Mk("k")>>)>> >>)>> >>)>>,
       <<<<"w","e","e","k">>, JInt(2)>> >>

\* what a unit may declare: a topic, direct collections, sub-containers
WalkUnitParts ==
    << <<<<"t","o","p","i","c">>, JStr(<<"H","o","m","e">>)>>,
       <<<<"i","t","e","m","s">>, JList(<<Mk("i")>>)>>,
       <<<<"p","h","r","a","s","e","s">>, JList(<<Mk("p")>>)>>,
       <<<<"s","e","c","t","i","o","n","s">>, JDict(<< <<<<"s","_","1">>, JDict(<< <<<<"e","n","t","r","i","e","s">>, JList(<<Mk("s")>>)>> >>)>> >>)>>,
       <<<<"d","a","y","s">>, JDict(<<
           <<<<"d","a","y","_","1">>, JDict(<< <<<<"t","o","p","i","c">>, JStr(<<"G","r","e","e","t","i","n","g","s">>)>>, <<<<"w","o","r","d","s">>, JList(<<Mk("d")>>)>> >>)>>,
           <<<<"d","a","y","_","2">>, JDict(<< <<<<"t","i","t","l","e">>, JStr(<<"R","o","o","m","s">>)>>, <<<<"e","n","t","r","i","e","s">>, JList(<<Mk("r")>>)>>,
                               <<<<"p","h","r","a","s","e","s">>, JList(<<Mk("q")>>)>> >>)>> >>)>>,
       <<<<"e","n","t","r","i","e","s">>, JList(<<Mk("e"), Mk("f")>>)>> >>

\* a second unit, after the one that varies
WalkLastUnit ==
    JDict(<< <<<<"t","i","t","l","e">>, JStr(<<"F","o","o","d">>)>>,
             <<<<"w","o","r","d","s">>, JList(<<Mk("z")>>)>>,
             <<<<"l","e","s","s","o","n","s">>, JDict(<< <<<<"l","_","7">>, JDict(<< <<<<"i","t","e","m","s">>, JList(<<Mk("y")>>)>> >>)>> >>)>> >>)

\* a document of two units under 'weeks', with or without a week at the root
WalkNested(unit, root_parts) ==
    JDict(root_parts \o
          << <<<<"w","e","e","k","s">>, JDict(<< <<<<"w","e","e","k","_","3">>, unit>>, <<<<"u","n","i","t","1","2">>, WalkLastUnit>> >>)>> >>)

\* the documents given to _extract_entries
WalkDocSet ==
    Declaring(WalkRootParts)
    \cup {WalkNested(unit, root_parts) :
              unit \in Declaring(WalkUnitParts),
              root_parts \in {<<>>, << <<<<"w","e","e","k">>, JInt(2)>>, <<<<"t","o","p","i","c">>, JStr(<<"A","l","l">>)>> >>}}

\* the fields an entry may hold for the Back field, each absent, empty or filled
BackNativeSet ==
    {<<>>, << <<<<"n","a","t","i","v","e">>, JStr(<<>>)>> >>, << <<<<"n","a","t","i","v","e">>, JStr(<<"h","o","u","s","e">>)>> >>,
     << <<<<"n","a","t","i","v","e">>, JStr(<<>>)>>, <<<<"t","r","a","n","s","l","a","t","i","o","n">>, JStr(<<"h","o","m","e">>)>> >>}
BackConnectionSet ==
    {<<>>, << <<<<"d","u","t","c","h","_","c","o","n","n","e","c","t","i","o","n">>, JStr(<<"h","u","i","s">>)>> >>,
     << <<<<"c","o","n","n","e","c","t","i","o","n","s">>, JDict(<< <<<<"d","u","t","c","h">>, JStr(<<"h","u","s">>)>> >>)>> >>,
     << <<<<"d","u","t","c","h","_","c","o","n","n","e","c","t","i","o","n">>, JStr(<<>>)>>,
        <<<<"c","o","n","n","e","c","t","i","o","n","s">>, JDict(<< <<<<"d","u","t","c","h">>, JStr(<<"h","u","s">>)>> >>)>> >>}
BackExampleSet ==
    {<<>>, << <<<<"e","x","a","m","p","l","e">>, JStr(<<>>)>> >>, << <<<<"e","x","a","m","p","l","e">>, JStr(<<"E","x">>)>> >>,
     << <<<<"e","x","a","m","p","l","e","s">>, JList(<<JStr(<<"a">>), JStr(<<"b">>)>>)>> >>}
BackPronunciationSet ==
    {<<>>, << <<<<"p","r","o","n","u","n","c","i","a","t","i","o","n">>, JStr(<<>>)>> >>, << <<<<"p","r","o","n","u","n","c","i","a","t","i","o","n">>, JStr(<<"p","r">>)>> >>}
BackNotesSet ==
    {<<>>, << <<<<"n","o","t","e","s">>, JList(<<>>)>> >>, << <<<<"n","o","t","e","s">>, JStr(<<"n","t">>)>> >>}

\* the entries given to _format_clean_back; the fields are declared in an order other
\* than the one of the pieces
BackEntrySet ==
    {JDict(no \o pr \o ex \o co \o na) :
        na \in BackNativeSet, co \in BackConnectionSet, ex \in BackExampleSet,
        pr \in BackPronunciationSet, no \in BackNotesSet}

\* the AnkiApp formatters that build the Back field: connections shown (the default)
\* or not
BackFormatterSet ==
    {NewFormatter(AnkiAppCls, JNone),
     NewFormatter(AnkiAppCls, JDict(<< <<<<"s","h","o","w","_","c","o","n","n","e","c","t","i","o","n","s">>, JBool(FALSE)>> >>))}

\* the largest max_size of a DataCache and the most operations on one
MaxCacheSize == 2
MaxCacheOps == 4

\* the keys and values given to the cache, and the content types reloaded
CacheKeySet == {<<"v",":","a">>, <<"v",":","b">>, <<"g",":","a">>}
CacheValueSet == {JInt(1), JInt(2)}
ContentTypeSet == {<<"v">>, <<"g">>}

-----------------------------------------------------------------------------
(* State machine                                                           *)

\* the value an operation leaves when an exception propagates to its caller
Exception == [t |-> "exception", v |-> <<>>]

\* what format_entry produced for a processed entry
RAISED == [raised |-> TRUE, row |-> <<>>]
Row(row) == [raised |-> FALSE, row |-> row]

\* the last format_entry call on the instance: its arguments and outcome, and whether
\* the call before it returned a row for the same arguments
NoCall == [entry |-> JNone, metadata |-> JNone, raised |-> FALSE, row |-> <<>>,
           repeat |-> FALSE]
NoFormatter == [cls |-> "none", config |-> JNone, field_mappings |-> JNone]

\* str(filepath): output_dir / f"{source_clean}_{timestamp}.csv" for an empty source
\* name, the timestamp left out
filepath == <<"o","u","t","p","u","t","/","f","l","a","s","h","c","a","r","d","s",".","c","s","v">>

\* the same for the source name a.json
json_filepath == <<"o","u","t","p","u","t","/","a",".","c","s","v">>

\* whether generate_from_data is running, called directly or by generate_from_json_file
Generating == mode \in {"generate", "file"}

Warning(msg) == [level |-> "warning", msg |-> msg]
Error(msg)   == [level |-> "error", msg |-> msg]
Info(msg)    == [level |-> "info", msg |-> msg]

\* the instance after format_entry updated its field mappings: the list objects are
\* those of the config's 'field_mappings' when the config has that key
WithMappings(f, fm) ==
    [f EXCEPT !.field_mappings = fm,
              !.config = IF IsAnkiAppFamily(f.cls) /\ Has(f.config, <<"f","i","e","l","d","_","m","a","p","p","i","n","g","s">>)
                         THEN Put(f.config, <<"f","i","e","l","d","_","m","a","p","p","i","n","g","s">>, fm) ELSE f.config]

\* the caller's custom_config object after the formatter worked on it
SharedConfig(cc, f) == IF Bool(cc) THEN f.config ELSE cc

\* GenericLanguageCSVGenerator.formatters.get(formatter_type, AnkiAppFormatter);
\* 'generic' maps to the bound method _get_generic_formatter
FormatterClass(ftype) ==
    CASE ftype = <<"a","n","k","i","a","p","p">> -> AnkiAppCls
      [] ftype \in {<<"p","h","r","a","s","e","s">>, <<"c","o","m","m","o","n","_","p","h","r","a","s","e","s">>} -> GenPhrasesCls
      [] ftype = <<"g","e","n","e","r","i","c">> -> "_get_generic_formatter"
      [] OTHER -> AnkiAppCls

\* FormatterFactory.create_formatter: the class registered for the type
FactoryClass(ftype) ==
    CASE ftype = <<"a","n","k","i","a","p","p">> -> AnkiAppCls
      [] ftype \in {<<"p","h","r","a","s","e","s">>, <<"c","o","m","m","o","n","_","p","h","r","a","s","e","s">>} -> PhrasesCls
      [] ftype = <<"a","n","k","i">> -> AnkiCls
      [] ftype = <<"q","u","i","z","l","e","t">> -> QuizletCls
      [] OTHER -> GenericCls

InitCommon ==
    /\ pc = "start"
    /\ idx = 0
    /\ csvfile = <<>>
    /\ csv_lines = <<>>
    /\ success_count = 0
    /\ log = <<>>
    /\ result = JNone
    /\ produced = <<>>
    /\ call = NoCall
    /\ written = JNone

\* generate_from_data(data, "", formatter_type, custom_config) is about to run
InitGenerate ==
    /\ mode = "generate"
    /\ data \in DocSet
    /\ formatter_type \in FormatterTypeSet
    /\ custom_config \in CustomConfigSet
    /\ entries_with_metadata = <<>>
    /\ formatter = NoFormatter
    /\ field = JNone

\* _build_csv_content(entries, metadata, is_phrases) is about to run
InitPreview ==
    /\ mode = "preview"
    /\ data = JNone
    /\ formatter_type \in {<<"a","n","k","i","a","p","p">>, <<"p","h","r","a","s","e","s">>}
    /\ custom_config = JNone
    /\ \E es \in SeqUpTo(BatchEntrySet, MaxBatch), m \in {M_week, M_section} :
           entries_with_metadata = [i \in 1..Len(es) |-> <<es[i], m>>]
    /\ formatter = NoFormatter
    /\ field = JNone

\* a formatter made by FormatterFactory.create_formatter or by the generator
InitFormat ==
    /\ InitCommon
    /\ mode = "format"
    /\ data = JNone
    /\ formatter_type = <<>>
    /\ custom_config = JNone
    /\ entries_with_metadata = <<>>
    /\ formatter \in FormatterSet
    /\ field = JNone

\* a field value is about to be serialised
InitEscape ==
    /\ InitCommon
    /\ mode = "escape"
    /\ data = JNone
    /\ formatter_type = <<>>
    /\ custom_config = JNone
    /\ entries_with_metadata = <<>>
    /\ formatter = NoFormatter
    /\ field \in {JStr(s) : s \in FieldSet}

\* an entry and its metadata are about to get their tags synthesized
InitTags ==
    /\ InitCommon
    /\ mode = "tags"
    /\ data = JNone
    /\ formatter_type = <<>>
    /\ custom_config = JNone
    /\ \E tf \in TagFieldSet, cf \in TypeFieldSet, wm \in WeekMetaSet, tm \in TopicMetaSet :
           entries_with_metadata =
               << <<JDict(<< <<<<"t","a","r","g","e","t">>, JStr(<<"x">>)>> >> \o cf \o tf), JDict(wm \o tm)>> >>
    /\ formatter = NoFormatter
    /\ field = JNone

\* a role of an entry is about to be resolved through field_keys
InitResolve ==
    /\ InitCommon
    /\ mode = "resolve"
    /\ data = JNone
    /\ formatter_type = <<>>
    /\ custom_config = JNone
    /\ \E p \in ResolveEntries(MaxAliases) : entries_with_metadata = << <<JDict(p), JNone>> >>
    /\ formatter = NoFormatter
    /\ field \in ResolveKeysSet

\* formatter.validate_entry(entry_data) is about to run
InitValidate ==
    /\ InitCommon
    /\ mode = "validate"
    /\ data = JNone
    /\ formatter_type = <<>>
    /\ custom_config = JNone
    /\ \E entry_data \in EntrySet : entries_with_metadata = << <<entry_data, JNone>> >>
    /\ formatter \in ValidatorSet
    /\ field = JNone

\* generate_from_json_file(json_file, formatter_type) is about to run; field holds the
\* parts of the path and data what is found there
InitFile ==
    /\ mode = "file"
    /\ data \in FileSet
    /\ formatter_type \in {<<"a","u","t","o">>, <<"a","n","k","i","a","p","p">>}
    /\ custom_config = JNone
    /\ entries_with_metadata = <<>>
    /\ formatter = NoFormatter
    /\ field \in {JList(p) : p \in PathSet}

\* the text of the preview content made of the lines
ContentOf(lines) == JStr(Join([i \in 1..Len(lines) |-> lines[i].text], <<"\n">>))

\* _generate_csv_preview stored the content _build_csv_content returned for some
\* formatted rows: current_csv_content (field) and its lines, each a header or a row
InitExport ==
    /\ mode = "export"
    /\ pc = "start"
    /\ data = JNone
    /\ formatter_type = <<>>
    /\ custom_config = JNone
    /\ entries_with_metadata = <<>>
    /\ formatter = NewFormatter(AnkiAppCls, _get_csv_generator_config)
    /\ idx = 0
    /\ csvfile = <<>>
    /\ csv_lines = <<>>
    /\ success_count = 0
    /\ log = <<>>
    /\ result = JNone
    /\ call = NoCall
    /\ written = JNone
    /\ \E rows \in SeqUpTo(ExportRowSet, MaxExportRows) :
           /\ rows # <<>>
           /\ produced = << [kind |-> "header", text |-> HeaderLine(get_headers(formatter))] >>
                            \o [i \in 1..Len(rows) |-> [kind |-> "row", text |-> _escape_csv_row(rows[i])]]
    /\ field = ContentOf(produced)

\* the first of several generate_from_data calls is about to run; written keeps the
\* configuration as the caller built it and field the number of the running call
InitDocuments ==
    /\ mode = "generate"
    /\ pc = "start"
    /\ data \in DocumentSet
    /\ formatter_type \in {<<"a","n","k","i","a","p","p">>, <<"p","h","r","a","s","e","s">>}
    /\ custom_config \in SharedConfigSet
    /\ entries_with_metadata = <<>>
    /\ formatter = NoFormatter
    /\ idx = 0
    /\ csvfile = <<>>
    /\ csv_lines = <<>>
    /\ success_count = 0
    /\ log = <<>>
    /\ result = JNone
    /\ produced = <<>>
    /\ call = NoCall
    /\ field = JInt(1)
    /\ written = custom_config

\* _extract_entries(data) is about to run
InitWalk ==
    /\ mode = "walk"
    /\ pc = "start"
    /\ data \in WalkDocSet
    /\ formatter_type = <<>>
    /\ custom_config = JNone
    /\ entries_with_metadata = <<>>
    /\ formatter = NoFormatter
    /\ idx = 0
    /\ csvfile = <<>>
    /\ csv_lines = <<>>
    /\ success_count = 0
    /\ log = <<>>
    /\ result = JNone
    /\ produced = <<>>
    /\ call = NoCall
    /\ field = JNone
    /\ written = JNone

\* self._format_clean_back(entry_data, metadata) of an AnkiApp formatter is about to run
InitBack ==
    /\ mode = "back"
    /\ pc = "start"
    /\ data = JNone
    /\ formatter_type = <<>>
    /\ custom_config = JNone
    /\ \E entry_data \in BackEntrySet : entries_with_metadata = << <<entry_data, JDict(<<>>)>> >>
    /\ formatter \in BackFormatterSet
    /\ idx = 0
    /\ csvfile = <<>>
    /\ csv_lines = <<>>
    /\ success_count = 0
    /\ log = <<>>
    /\ result = JNone
    /\ produced = <<>>
    /\ call = NoCall
    /\ field = JNone
    /\ written = JNone

\* a DataCache(max_size) after construction; data is cache, field access_order,
\* idx max_size, and produced the operations done so far, each with the keys the
\* cache held before it
InitCache ==
    /\ mode = "cache"
    /\ pc = "start"
    /\ data = JDict(<<>>)
    /\ formatter_type = <<>>
    /\ custom_config = JNone
    /\ entries_with_metadata = <<>>
    /\ formatter = NoFormatter
    /\ idx \in 1..MaxCacheSize
    /\ csvfile = <<>>
    /\ csv_lines = <<>>
    /\ success_count = 0
    /\ log = <<>>
    /\ result = JNone
    /\ produced = <<>>
    /\ call = NoCall
    /\ field = JList(<<>>)
    /\ written = JNone

Init == InitCommon /\ (InitGenerate \/ InitPreview \/ InitFile)

\* generate_from_json_file: the file cannot be opened or parsed
LoadFails ==
    /\ mode = "file" /\ pc = "start" /\ data \in {FileMissing, FileInvalid}
    /\ log' = Append(log, Error(IF data = FileMissing THEN "JSON file not found"
                                  ELSE "Invalid JSON in file"))
    /\ result' = JNone
    /\ pc' = "done"
    /\ UNCHANGED <<mode, data, formatter_type, custom_config, entries_with_metadata,
                   formatter, idx, csvfile, csv_lines, success_count, produced, call,
                   field, written>>

\* generate_from_json_file: the file is parsed and the formatter type detected when it
\* is 'auto'; generate_from_data is called next
LoadJson ==
    /\ mode = "file" /\ pc = "start" /\ data \notin {FileMissing, FileInvalid}
    /\ IF formatter_type = <<"a","u","t","o">>
       THEN \E detected_type \in {DetectContentType(data, field.v)} :
               IF detected_type.raised
               THEN /\ result' = Exception /\ pc' = "done"
                    /\ UNCHANGED <<formatter_type, log>>
               ELSE /\ formatter_type' = detected_type.v
                    /\ log' = Append(log, Info("Auto-detected content type"))
                    /\ pc' = "generate"
                    /\ UNCHANGED result
       ELSE /\ pc' = "generate"
            /\ UNCHANGED <<formatter_type, log, result>>
    /\ UNCHANGED <<mode, data, custom_config, entries_with_metadata, formatter, idx,
                   csvfile, csv_lines, success_count, produced, call, field, written>>

\* generate_from_data up to the call of _write_csv: the walk and the formatter setup
GenerateStart ==
    /\ \/ mode = "generate" /\ pc = "start"
       \/ mode = "file" /\ pc = "generate"
    /\ \E walked \in {_extract_entries(data)},
          formatter_config \in {IF Bool(custom_config) THEN custom_config
                                ELSE _get_default_config},
          cls \in {FormatterClass(formatter_type)} :
           IF walked.raised
           THEN /\ result' = Exception /\ pc' = "done"
                /\ UNCHANGED <<entries_with_metadata, formatter, custom_config, log>>
           ELSE IF walked.v = <<>>
           THEN /\ log' = Append(log, Warning("No entries found in data"))
                /\ result' = JNone /\ pc' = "done"
                /\ UNCHANGED <<entries_with_metadata, formatter, custom_config>>
           ELSE IF cls = "_get_generic_formatter"
           THEN /\ entries_with_metadata' = walked.v
                /\ result' = Exception /\ pc' = "done"
                /\ UNCHANGED <<formatter, custom_config, log>>
           ELSE /\ entries_with_metadata' = walked.v
                /\ formatter' = NewFormatter(cls, formatter_config)
                /\ custom_config' = SharedConfig(custom_config, formatter')
                /\ pc' = "open"
                /\ UNCHANGED <<result, log>>
    /\ UNCHANGED <<mode, data, formatter_type, idx, csvfile, csv_lines, success_count,
                   produced, call, field, written>>

\* _write_csv: open(filepath, 'w') succeeds
OpenFile ==
    /\ Generating /\ pc = "open"
    /\ pc' = "rows"
    /\ UNCHANGED <<mode, data, formatter_type, custom_config, entries_with_metadata,
                   formatter, idx, csvfile, csv_lines, success_count, log, result,
                   produced, call, field, written>>

\* _write_csv: open(filepath, 'w') raises; the outer handler logs and returns None
OpenFails ==
    /\ Generating /\ pc = "open"
    /\ log' = Append(log, Error("Error writing CSV file"))
    /\ result' = JNone
    /\ pc' = "done"
    /\ UNCHANGED <<mode, data, formatter_type, custom_config, entries_with_metadata,
                   formatter, idx, csvfile, csv_lines, success_count, produced, call,
                   field, written>>

\* a variant of _write_csv with the try around the whole loop: the first entry that fails to format
\* ends the loop, and the outer handler logs and returns None
WriteRow_abort ==
    /\ Generating /\ pc = "rows" /\ idx < Len(entries_with_metadata)
    /\ \E r \in {format_entry(formatter, entries_with_metadata[idx + 1][1],
                                entries_with_metadata[idx + 1][2])} :
           /\ formatter' = WithMappings(formatter, r.fm)
           /\ custom_config' = SharedConfig(custom_config, formatter')
           /\ IF r.raised
              THEN /\ log' = Append(log, Error("Error writing CSV file"))
                   /\ produced' = Append(produced, RAISED)
                   /\ result' = JNone
                   /\ pc' = "done"
                   /\ UNCHANGED <<csvfile, success_count>>
              ELSE /\ csvfile' = Append(csvfile, writerow(r.row))
                   /\ success_count' = success_count + 1
                   /\ produced' = Append(produced, Row(r.row))
                   /\ UNCHANGED <<log, result, pc>>
    /\ idx' = idx + 1
    /\ UNCHANGED <<mode, data, formatter_type, entries_with_metadata, csv_lines,
                   call, field, written>>

\* _write_csv with success_count incremented before format_entry is called, so that
\* an entry that fails to format is counted too
WriteRow_miscount ==
    /\ Generating /\ pc = "rows" /\ idx < Len(entries_with_metadata)
    /\ \E r \in {format_entry(formatter, entries_with_metadata[idx + 1][1],
                                entries_with_metadata[idx + 1][2])} :
           /\ formatter' = WithMappings(formatter, r.fm)
           /\ custom_config' = SharedConfig(custom_config, formatter')
           /\ success_count' = success_count + 1
           /\ IF r.raised
              THEN /\ log' = Append(log, Warning("Failed to format entry"))
                   /\ produced' = Append(produced, RAISED)
                   /\ UNCHANGED csvfile
              ELSE /\ csvfile' = Append(csvfile, writerow(r.row))
                   /\ produced' = Append(produced, Row(r.row))
                   /\ UNCHANGED log
    /\ idx' = idx + 1
    /\ UNCHANGED <<mode, pc, data, formatter_type, entries_with_metadata, csv_lines,
                   result, call, field, written>>

\* _write_csv: one pass of the loop over entries_with_metadata
WriteRow ==
    /\ Generating /\ pc = "rows" /\ idx < Len(entries_with_metadata)
    /\ \E r \in {format_entry(formatter, entries_with_metadata[idx + 1][1],
                                entries_with_metadata[idx + 1][2])} :
           /\ formatter' = WithMappings(formatter, r.fm)
           /\ custom_config' = SharedConfig(custom_config, formatter')
           /\ IF r.raised
              THEN /\ log' = Append(log, Warning("Failed to format entry"))
                   /\ produced' = Append(produced, RAISED)
                   /\ UNCHANGED <<csvfile, success_count>>
              ELSE /\ csvfile' = Append(csvfile, writerow(r.row))
                   /\ success_count' = success_count + 1
                   /\ produced' = Append(produced, Row(r.row))
                   /\ UNCHANGED log
    /\ idx' = idx + 1
    /\ UNCHANGED <<mode, pc, data, formatter_type, entries_with_metadata, csv_lines,
                   result, call, field, written>>

\* _write_csv: the loop is over, the file is closed and the path returned
WriteDone ==
    /\ Generating /\ pc = "rows" /\ idx = Len(entries_with_metadata)
    /\ log' = Append(log, Info("Generated CSV"))
    /\ result' = JStr(IF mode = "file" THEN json_filepath ELSE filepath)
    /\ pc' = "done"
    /\ UNCHANGED <<mode, data, formatter_type, custom_config, entries_with_metadata,
                   formatter, idx, csvfile, csv_lines, success_count, produced, call,
                   field, written>>

\* _build_csv_content: the formatter and the header line
PreviewStart ==
    /\ mode = "preview" /\ pc = "start"
    /\ formatter' = NewFormatter(FactoryClass(formatter_type), _get_csv_generator_config)
    /\ csv_lines' = IF get_headers(formatter') # <<>>
                    THEN << HeaderLine(get_headers(formatter')) >> ELSE <<>>
    /\ pc' = "rows"
    /\ UNCHANGED <<mode, data, formatter_type, custom_config, entries_with_metadata, idx,
                   csvfile, success_count, log, result, produced, call, field, written>>

\* _build_csv_content: one pass of the loop over the entries
PreviewRow ==
    /\ mode = "preview" /\ pc = "rows" /\ idx < Len(entries_with_metadata)
    /\ \E r \in {format_entry(formatter, entries_with_metadata[idx + 1][1],
                                entries_with_metadata[idx + 1][2])} :
           /\ formatter' = WithMappings(formatter, r.fm)
           /\ IF r.raised
              THEN /\ log' = Append(log, Warning("Failed to format entry"))
                   /\ produced' = Append(produced, RAISED)
                   /\ UNCHANGED <<csv_lines, success_count>>
              ELSE /\ csv_lines' = Append(csv_lines, _escape_csv_row(r.row))
                   /\ success_count' = success_count + 1
                   /\ produced' = Append(produced, Row(r.row))
                   /\ UNCHANGED log
    /\ idx' = idx + 1
    /\ UNCHANGED <<mode, pc, data, formatter_type, custom_config, entries_with_metadata,
                   csvfile, result, call, field, written>>

\* _build_csv_content: ValueError when no entry was formatted, else the joined lines
PreviewDone ==
    /\ mode = "preview" /\ pc = "rows" /\ idx = Len(entries_with_metadata)
    /\ IF success_count = 0
       THEN result' = Exception /\ UNCHANGED log
       ELSE /\ result' = JStr(Join(csv_lines, <<"\n">>))
            /\ log' = Append(log, Info("Successfully formatted"))
    /\ pc' = "done"
    /\ UNCHANGED <<mode, data, formatter_type, custom_config, entries_with_metadata,
                   formatter, idx, csvfile, csv_lines, success_count, produced, call,
                   field, written>>

\* formatter.format_entry(entry_data, metadata) on the instance
FormatEntry ==
    /\ mode = "format"
    /\ \E entry_data \in EntrySet, metadata \in MetaSet :
          \E r \in {format_entry(formatter, entry_data, metadata)} :
              /\ formatter' = WithMappings(formatter, r.fm)
              /\ call' = [entry |-> entry_data, metadata |-> metadata,
                          raised |-> r.raised, row |-> r.row,
                          repeat |-> /\ call # NoCall /\ ~call.raised
                                     /\ call.entry = entry_data
                                     /\ call.metadata = metadata]
    /\ UNCHANGED <<mode, pc, data, formatter_type, custom_config, entries_with_metadata,
                   idx, csvfile, csv_lines, success_count, log, result, produced,
                   field, written>>

\* the field written by the preview path (_escape_csv_row) and by the file path (csv.writer)
Serialise ==
    /\ mode = "escape" /\ pc = "start"
    /\ written' = [preview |-> EscapeField(field), file |-> WriterField(field)]
    /\ pc' = "done"
    /\ UNCHANGED <<mode, data, formatter_type, custom_config, entries_with_metadata,
                   formatter, idx, csvfile, csv_lines, success_count, log, result,
                   produced, call, field>>

\* _generate_simple_tags(entry_data, metadata) of an AnkiApp or a phrases formatter
GenerateTags ==
    /\ mode = "tags" /\ pc = "start"
    /\ \E cls \in {AnkiAppCls, PhrasesCls} :
          written' = [cls |-> cls,
                      tags |-> IF cls = AnkiAppCls
                               THEN AnkiAppTagList(entries_with_metadata[1][1],
                                                   entries_with_metadata[1][2])
                               ELSE PhrasesTagList(entries_with_metadata[1][1],
                                                   entries_with_metadata[1][2]),
                      text |-> _generate_simple_tags(cls, entries_with_metadata[1][1],
                                                     entries_with_metadata[1][2])]
    /\ pc' = "done"
    /\ UNCHANGED <<mode, data, formatter_type, custom_config, entries_with_metadata,
                   formatter, idx, csvfile, csv_lines, success_count, log, result,
                   produced, call, field>>

\* self._safe_get_string(entry_data, field_keys, '')
Resolve ==
    /\ mode = "resolve" /\ pc = "start"
    /\ written' = [text |-> _safe_get_string(entries_with_metadata[1][1], field, <<>>)]
    /\ pc' = "done"
    /\ UNCHANGED <<mode, data, formatter_type, custom_config, entries_with_metadata,
                   formatter, idx, csvfile, csv_lines, success_count, log, result,
                   produced, call, field>>

\* formatter.validate_entry(entry_data)
ValidateEntry ==
    /\ mode = "validate" /\ pc = "start"
    /\ written' = validate_entry(formatter, entries_with_metadata[1][1])
    /\ pc' = "done"
    /\ UNCHANGED <<mode, data, formatter_type, custom_config, entries_with_metadata,
                   formatter, idx, csvfile, csv_lines, success_count, log, result,
                   produced, call, field>>

\* the user deletes one line (the header or a row) in the preview editor:
\* _on_csv_content_changed(new_csv_content) stores the editor's text
EditContent ==
    /\ mode = "export" /\ pc = "start"
    /\ \E i \in 1..Len(produced) :
           /\ produced' = SubSeq(produced, 1, i - 1) \o SubSeq(produced, i + 1, Len(produced))
           /\ field' = ContentOf(produced')
    /\ UNCHANGED <<mode, pc, data, formatter_type, custom_config, entries_with_metadata,
                   formatter, idx, csvfile, csv_lines, success_count, log, result,
                   call, written>>

\* _export_csv with no content: a warning is shown and nothing is written
ExportNothing ==
    /\ mode = "export" /\ pc = "start" /\ field.v = <<>>
    /\ log' = Append(log, Warning("No CSV content to export"))
    /\ pc' = "done"
    /\ UNCHANGED <<mode, data, formatter_type, custom_config, entries_with_metadata,
                   formatter, idx, csvfile, csv_lines, success_count, result, produced,
                   call, field, written>>

\* _export_csv: the user closes the file dialog without a path
ExportCancelled ==
    /\ mode = "export" /\ pc = "start" /\ field.v # <<>>
    /\ pc' = "done"
    /\ UNCHANGED <<mode, data, formatter_type, custom_config, entries_with_metadata,
                   formatter, idx, csvfile, csv_lines, success_count, log, result,
                   produced, call, field, written>>

\* _export_csv: the first line is cut off, blank lines are left out, the rest is written
ExportCsv ==
    /\ mode = "export" /\ pc = "start" /\ field.v # <<>>
    /\ csv_lines' = Split(field.v, "\n")
    /\ written' = [file |-> Join(SelectSeq(Tail(csv_lines'), LAMBDA line : Strip(line) # <<>>),
                                 <<"\n">>)]
    /\ pc' = "done"
    /\ UNCHANGED <<mode, data, formatter_type, custom_config, entries_with_metadata,
                   formatter, idx, csvfile, success_count, log, result, produced, call,
                   field>>

\* the caller calls generate_from_data again, on another document, with the same
\* custom_config object
NextDocument ==
    /\ mode = "generate" /\ pc = "done" /\ field.t = "int" /\ field.v < MaxDocuments
    /\ data' \in DocumentSet
    /\ field' = JInt(field.v + 1)
    /\ pc' = "start"
    /\ entries_with_metadata' = <<>>
    /\ formatter' = NoFormatter
    /\ idx' = 0
    /\ csvfile' = <<>>
    /\ success_count' = 0
    /\ log' = <<>>
    /\ result' = JNone
    /\ produced' = <<>>
    /\ UNCHANGED <<mode, formatter_type, custom_config, csv_lines, call, written>>

\* entries_with_metadata = self._extract_entries(data); written tells whether it raised
ExtractEntries ==
    /\ mode = "walk" /\ pc = "start"
    /\ \E r \in {_extract_entries(data)} :
           /\ entries_with_metadata' = r.v
           /\ written' = JBool(r.raised)
    /\ pc' = "done"
    /\ UNCHANGED <<mode, data, formatter_type, custom_config, formatter, idx, csvfile,
                   csv_lines, success_count, log, result, produced, call, field>>

\* back = self._format_clean_back(entry_data, metadata)
FormatBack ==
    /\ mode = "back" /\ pc = "start"
    /\ written' = _format_clean_back(formatter, formatter.field_mappings,
                                     entries_with_metadata[1][1], entries_with_metadata[1][2])
    /\ pc' = "done"
    /\ UNCHANGED <<mode, data, formatter_type, custom_config, entries_with_metadata,
                   formatter, idx, csvfile, csv_lines, success_count, log, result,
                   produced, call, field>>

\* the state of the cache after an operation that returned or raised r
CacheStep(r, op, key) ==
    /\ data' = r.cache
    /\ field' = JList(r.access_order)
    /\ result' = IF r.raised THEN Exception ELSE r.value
    /\ produced' = Append(produced, [op |-> op, key |-> key,
                                      before |-> {data.v[i][1] : i \in 1..Len(data.v)}])
    /\ UNCHANGED <<mode, pc, formatter_type, custom_config, entries_with_metadata,
                   formatter, idx, csvfile, csv_lines, success_count, log, call, written>>

\* cache.get(key)
CacheGet ==
    /\ mode = "cache" /\ Len(produced) < MaxCacheOps
    /\ \E key \in CacheKeySet : CacheStep(DataCache_get(data, field.v, key), "get", key)

\* cache.set(key, value)
CacheSet ==
    /\ mode = "cache" /\ Len(produced) < MaxCacheOps
    /\ \E key \in CacheKeySet, value \in CacheValueSet :
           CacheStep(DataCache_set(data, field.v, idx, key, value), "set", key)

\* cache.clear()
CacheClear ==
    /\ mode = "cache" /\ Len(produced) < MaxCacheOps
    /\ CacheStep(DataCache_clear(data, field.v), "clear", <<>>)

\* reload_content_type(content_type) dropping the content type's keys
CacheReload ==
    /\ mode = "cache" /\ Len(produced) < MaxCacheOps
    /\ \E content_type \in ContentTypeSet :
           CacheStep(ReloadDrop(data, field.v, content_type), "reload", content_type)

Next ==
    \/ LoadFails
    \/ LoadJson
    \/ GenerateStart
    \/ OpenFile
    \/ OpenFails
    \/ WriteRow
    \/ WriteDone
    \/ PreviewStart
    \/ PreviewRow
    \/ PreviewDone

\* the generator (generate_from_data) and the preview builder (_build_csv_content)
Spec == Init /\ [][Next]_vars

\* a formatter instance formatting entries one after the other
SpecFormat == InitFormat /\ [][FormatEntry]_vars

\* tag synthesis as a function of the entry and its metadata
SpecTags == InitTags /\ [][GenerateTags]_vars

\* the two field serialisers as functions of the field
SpecEscape == InitEscape /\ [][Serialise]_vars

\* role resolution as a function of the entry and the alias list
SpecResolve == InitResolve /\ [][Resolve]_vars

\* entry validation as a function of the formatter and the entry
SpecValidate == InitValidate /\ [][ValidateEntry]_vars

\* the export of a preview content, freshly generated or edited
SpecExport == InitExport /\ [][EditContent \/ ExportNothing \/ ExportCancelled \/ ExportCsv]_vars

\* several generate_from_data calls on one generator with one custom_config object
SpecDocuments ==
    InitDocuments /\ [][GenerateStart \/ OpenFile \/ WriteRow \/ WriteDone \/ NextDocument]_vars

\* the content tree walker as a function of the document
SpecWalk == InitWalk /\ [][ExtractEntries]_vars

\* the AnkiApp Back field as a function of the entry
SpecBack == InitBack /\ [][FormatBack]_vars

\* a DataCache under get, set, clear and the reload of a content type
SpecCache == InitCache /\ [][CacheGet \/ CacheSet \/ CacheClear \/ CacheReload]_vars

-----------------------------------------------------------------------------
(* Properties                                                              *)

\* the processed entries for which format_entry returned a row, in order
ReturnedRows(p) == SelectSeq(p, LAMBDA x : ~x.raised)

\* how many of the processed entries made format_entry raise
FailedCount(p) == Cardinality({i \in 1..Len(p) : p[i].raised})

\* the header line of the preview, when the formatter has headers
PreviewHeader ==
    IF get_headers(formatter) # <<>> THEN << HeaderLine(get_headers(formatter)) >> ELSE <<>>

\* C1: per-row failure isolation.  While and after the emitter works through a batch,
\* every entry processed so far whose format_entry returned a row has its line in the
\* output, in the original order, whatever the entries before or after it did; and a
\* batch whose processing began ends only with all its entries processed.  This holds
\* for _write_csv and for _build_csv_content.
C1_FailureIsolation ==
    /\ (mode = "generate" /\ pc \in {"rows", "done"}) =>
          /\ Len(csvfile) = Len(ReturnedRows(produced))
          /\ \A i \in 1..Len(csvfile) : csvfile[i] = writerow(ReturnedRows(produced)[i].row)
    /\ (mode = "generate" /\ pc = "rows") => Len(produced) = idx
    /\ (mode = "preview" /\ pc \in {"rows", "done"}) =>
          /\ Len(csv_lines) = Len(PreviewHeader) + Len(ReturnedRows(produced))
          /\ \A i \in 1..Len(ReturnedRows(produced)) :
                csv_lines[Len(PreviewHeader) + i]
                    = _escape_csv_row(ReturnedRows(produced)[i].row)
          /\ Len(produced) = idx
    /\ (mode \in {"generate", "preview"} /\ pc = "done" /\ produced # <<>>) =>
          Len(produced) = Len(entries_with_metadata)

\* C1 witness: a finished file export in which an entry failed between two entries
\* whose rows were written
C1_Witness ==
    /\ mode = "generate" /\ pc = "done" /\ result = JStr(filepath)
    /\ \E i, j, k \in 1..Len(produced) :
          /\ i < j /\ j < k
          /\ ~produced[i].raised /\ produced[j].raised /\ ~produced[k].raised
    /\ Len(csvfile) = Len(produced) - FailedCount(produced)

C3_FlatEntries ==
    (/\ mode = "generate" /\ pc # "start" /\ data.t = "dict"
     /\ Has(data, <<"e","n","t","r","i","e","s">>) /\ Get(data, <<"e","n","t","r","i","e","s">>).t = "list") =>
        /\ Len(entries_with_metadata) = Len(Get(data, <<"e","n","t","r","i","e","s">>).v)
        /\ \A i \in 1..Len(entries_with_metadata) :
              entries_with_metadata[i][1] = Get(data, <<"e","n","t","r","i","e","s">>).v[i]

\* C4 as stated: for every formatter variant a returned row has as many columns as
\* get_headers() has headers
C4_RowMatchesHeaders ==
    (mode = "format" /\ call # NoCall /\ ~call.raised) =>
        Len(call.row) = Len(get_headers(formatter))

\* C4 amended: a returned row has as many columns as get_headers() has headers for the
\* AnkiApp, Phrases, Anki and Generic formatters; the Quizlet formatter has no headers
\* and returns rows of two columns
C4_RowMatchesHeadersButQuizlet ==
    (mode = "format" /\ call # NoCall /\ ~call.raised) =>
        IF formatter.cls = QuizletCls
        THEN get_headers(formatter) = <<>> /\ Len(call.row) = 2
        ELSE Len(call.row) = Len(get_headers(formatter))

\* C4 witness: a Generic formatter with three configured headers returned a row
C4_Witness ==
    /\ mode = "format" /\ call # NoCall /\ ~call.raised
    /\ formatter.cls = GenericCls /\ Len(get_headers(formatter)) = 3
    /\ Len(call.row) = 3

\* C5 as stated: generating from Scenario A's document with the AnkiApp formatter and
\* the generator's default configuration, the file opened and the path returned,
\* writes exactly one row: das Haus, the house and an empty tag
C5_ScenarioA ==
    (/\ mode = "generate" /\ pc = "done" /\ data = DocA
     /\ formatter_type = <<"a","n","k","i","a","p","p">> /\ custom_config = JNone
     /\ result = JStr(filepath)) =>
        /\ Len(csvfile) = 1
        /\ produced = << Row(<<JStr(<<"d","a","s"," ","H","a","u","s">>), JStr(<<"t","h","e"," ","h","o","u","s","e">>), JStr(<<>>),
                               JStr(<<>>), JStr(<<>>)>>) >>

\* C6 as stated: the walker yields one entry for Scenario B's document, its metadata
\* has section_topic == "Greetings", and the AnkiApp tag synthesized for it is
\* "Week1,Greetings"
C6_ScenarioB ==
    (mode = "generate" /\ pc # "start" /\ data = DocB) =>
        /\ Len(entries_with_metadata) = 1
        /\ entries_with_metadata[1][1] = E_hallo
        /\ GetOr(entries_with_metadata[1][2], <<"s","e","c","t","i","o","n","_","t","o","p","i","c">>, JNone) = JStr(<<"G","r","e","e","t","i","n","g","s">>)
        /\ _generate_simple_tags(AnkiAppCls, entries_with_metadata[1][1],
                                 entries_with_metadata[1][2]) = Ok(<<"W","e","e","k","1",",","G","r","e","e","t","i","n","g","s">>)

\* C7 as stated: when an AnkiApp formatter constructed without configuration formats an
\* entry holding both a german and a target key, the front (the target role resolved
\* after detection) is the german value
C7_GermanWins ==
    (/\ mode = "format" /\ formatter.cls = AnkiAppCls /\ ~Has(formatter.config, <<"f","i","e","l","d","_","m","a","p","p","i","n","g","s">>)
     /\ ~Has(formatter.config, <<"t","a","r","g","e","t","_","l","a","n","g","u","a","g","e">>)
     /\ call.entry = E_both /\ ~call.raised) =>
        call.row[1] = Get(E_both, <<"g","e","r","m","a","n">>)

\* C8: two consecutive format_entry calls on an instance with the same entry and the
\* same metadata, both returning a row, return the same row
C8_RepeatIdentical ==
    [][(/\ call # NoCall /\ ~call.raised /\ ~call'.raised
        /\ call'.entry = call.entry /\ call'.metadata = call.metadata)
       => call'.row = call.row]_vars

\* C8 witness: an AnkiApp-family instance whose mappings detection has changed returned
\* a row for the arguments of the call before, which had returned a row too
C8_Witness ==
    /\ mode = "format" /\ call.repeat /\ ~call.raised
    /\ IsAnkiAppFamily(formatter.cls)
    /\ formatter.field_mappings # NewFormatter(formatter.cls, formatter.config).field_mappings
    /\ call.entry = E_both

\* the characters that make the spec's escaping rule quote a field
QuotingChars == {",", "\"", "\n", "<", ">"}

\* the field as the spec's escaping rule writes it
QuotedIfSpecial(s) ==
    IF HasAnyChar(s, QuotingChars) THEN <<"\"">> \o DoubleQuotes(s) \o <<"\"">> ELSE s

\* C9 as stated: on the preview path and on the file path alike a field is wrapped in
\* double quotes, its quotes doubled, iff it holds a comma, a double quote, a newline
\* or an angle bracket, and is written as it is otherwise
C9_QuoteRule ==
    (mode = "escape" /\ pc = "done") =>
        /\ written.preview = QuotedIfSpecial(field.v)
        /\ written.file = QuotedIfSpecial(field.v)

\* the entry's tags field as the sequence of raw tags: a list as it is, a scalar as one
RawTags(entry_data) ==
    LET entry_tags == GetOr(entry_data, <<"t","a","g","s">>, JList(<<>>))
    IN  IF entry_tags.t = "list" THEN entry_tags.v
        ELSE IF Bool(entry_tags) THEN <<entry_tags>> ELSE <<>>

\* str(tag).strip().capitalize()
CleanTag(tag) == Capitalize(Strip(PyStr(tag)))

\* C10: the tag list of the AnkiApp formatter is made of, in this order, a Week{N} tag
\* (exactly when the week, or else unit, metadata is truthy), at most one topic tag
\* (a capitalized single word, only when there is a topic), at most one content-type
\* tag (exactly when the content type is not vocabulary), and then at most two tags
\* of the entry: the first and the second of its own tags, cleaned and capitalized, in
\* that order; a third tag of the entry is never the source of a tag
C10_TagOrder ==
    (mode = "tags" /\ pc = "done" /\ written.cls = AnkiAppCls /\ ~written.tags.raised) =>
        LET T == written.tags.v
            entry_data == entries_with_metadata[1][1]
            metadata == entries_with_metadata[1][2]
            raw == RawTags(entry_data)
            content_type == _safe_get_string(entry_data,
                                JList(<<<<"c","o","n","t","e","n","t","_","t","y","p","e">>, <<"t","y","p","e">>>>), <<"v","o","c","a","b","u","l","a","r","y">>)
        IN  /\ written.text = Ok(Join(T, <<",">>))
            /\ \E w, p, c \in {0, 1}, e \in {0, 1, 2} :
                  /\ Len(T) = w + p + c + e
                  /\ w = 1 <=> Bool(MetaWeek(metadata))
                  /\ w = 1 => T[1] = <<"W","e","e","k">> \o PyStr(MetaWeek(metadata))
                  /\ p = 1 => /\ Bool(MetaTopic(metadata))
                              /\ T[w + 1] = Capitalize(T[w + 1])
                              /\ ~HasAnyChar(T[w + 1], Whitespace \cup {",", "&"})
                  /\ c = 1 <=> Lower(content_type) # <<"v","o","c","a","b","u","l","a","r","y">>
                  /\ c = 1 => T[w + p + 1] = Capitalize(content_type)
                  /\ e <= Len(raw)
                  /\ e = 2 => /\ T[w + p + c + 1] = CleanTag(raw[1])
                              /\ T[w + p + c + 2] = CleanTag(raw[2])
                  /\ e = 1 => T[w + p + c + 1] \in {CleanTag(raw[i]) : i \in 1..IF Len(raw) < 2 THEN Len(raw) ELSE 2}
                  /\ \A i \in 3..Len(raw) :
                        (\A j \in {1, 2} : CleanTag(raw[i]) # CleanTag(raw[j]))
                            => \A n \in (w + p + c + 1)..Len(T) : T[n] # CleanTag(raw[i])

\* C10 witness: the entry {"target":"x","tags":["a","b","c"]} with empty metadata got
\* the tags A, B
C10_Witness ==
    /\ mode = "tags" /\ pc = "done" /\ written.cls = AnkiAppCls
    /\ entries_with_metadata[1][1] = E_tags
    /\ entries_with_metadata[1][2] = JDict(<<>>)
    /\ written.text = Ok(<<"A",",","B">>)

\* the names of field_keys in rank order
RankedNames(field_keys) == IF field_keys.t = "str" THEN <<field_keys.v>> ELSE field_keys.v

\* the ranks of the names the entry holds with a non-empty value
NonEmptyRanks(entry_data, names) ==
    {i \in 1..Len(names) : Has(entry_data, names[i]) /\ Bool(Get(entry_data, names[i]))}

\* whether the entry holds a dict under one of the names
HoldsDict(entry_data, names) ==
    \E i \in 1..Len(names) : Has(entry_data, names[i]) /\ Get(entry_data, names[i]).t = "dict"

\* the text of a non-empty value: a list joined with ", " or unwrapped, a scalar as str
ValueText(value) ==
    IF value.t = "list"
    THEN (IF Len(value.v) > 1 THEN Join([i \in 1..Len(value.v) |-> PyStr(value.v[i])], <<","," ">>)
          ELSE PyStr(value.v[1]))
    ELSE PyStr(value)

\* C11: role resolution over an entry whose alias values are scalars or lists returns
\* the text of the value under the first name, in rank order, that the entry holds with
\* a non-empty value (names held with an empty value are skipped); a list of more than
\* one element is joined with ", ", a list of one element is unwrapped; when no name
\* resolves the result is the empty string, and in every case the result is a text.
C11_FirstNonEmptyAlias ==
    (/\ mode = "resolve" /\ pc = "done"
     /\ ~HoldsDict(entries_with_metadata[1][1], RankedNames(field))) =>
        LET entry_data == entries_with_metadata[1][1]
            names == RankedNames(field)
            ranks == NonEmptyRanks(entry_data, names)
        IN  /\ written.text \in Seq(STRING)
            /\ IF ranks = {} THEN written.text = <<>>
               ELSE written.text =
                        ValueText(Get(entry_data, names[CHOOSE i \in ranks : \A j \in ranks : i <= j]))

\* C11 witness: the first name is held with an empty text, the second with a list of
\* two elements, the third with a text; the result is the joined list
C11_Witness ==
    /\ mode = "resolve" /\ pc = "done" /\ field = JList(ResolveAliases)
    /\ GetOr(entries_with_metadata[1][1], ResolveAliases[1], JNone) = JStr(<<>>)
    /\ GetOr(entries_with_metadata[1][1], ResolveAliases[2], JNone) = JList(<<JStr(<<"x">>), JInt(2)>>)
    /\ GetOr(entries_with_metadata[1][1], ResolveAliases[3], JNone) = JStr(<<"a">>)
    /\ written.text = <<"x",","," ","2">>

\* C12 as stated: for an entry that is a field mapping, an AnkiApp or Phrases
\* format_entry returns a row whichever optional fields are missing or empty, and when
\* no target alias resolves the row has the front "Unknown"
C12_NeverRaises ==
    (/\ mode = "format" /\ call # NoCall /\ IsAnkiAppFamily(formatter.cls)
     /\ call.entry.t = "dict" /\ call.metadata # M_blank) =>
        /\ ~call.raised
        /\ NonEmptyRanks(call.entry, RankedNames(Get(formatter.field_mappings, <<"t","a","r","g","e","t">>))) = {}
              => call.row[1] = JStr(<<"U","n","k","n","o","w","n">>)

\* the roles the formatter's configuration requires
RequiredRoles(f) ==
    LET required_fields ==
            GetOr(f.config, <<"r","e","q","u","i","r","e","d","_","f","i","e","l","d","s">>, JList(<<JStr(<<"t","a","r","g","e","t">>), JStr(<<"n","a","t","i","v","e">>)>>)).v
    IN  {required_fields[i].v : i \in 1..Len(required_fields)}

\* C13 as stated: for an AnkiApp or Phrases formatter and an entry that is a field
\* mapping, validate_entry returns true iff every required role resolves to a non-empty
\* value through the formatter's alias table
C13_ValidIffRolesResolve ==
    (/\ mode = "validate" /\ pc = "done" /\ IsAnkiAppFamily(formatter.cls)
     /\ entries_with_metadata[1][1].t = "dict") =>
        /\ ~written.raised
        /\ written.v <=>
              \A role \in RequiredRoles(formatter) :
                  NonEmptyRanks(entries_with_metadata[1][1],
                                RankedNames(Get(formatter.field_mappings, role))) # {}

\* C14 as stated: the walk of generate_from_data never raises, whatever the types of the
\* root, the containers, the units, the sections and the collections, and a root that
\* is not an object yields no entry (the generator then returns None)
C14_WalkerTotal ==
    (mode = "generate" /\ pc = "done") =>
        /\ ~(result = Exception /\ entries_with_metadata = <<>>)
        /\ data.t # "dict" => (entries_with_metadata = <<>> /\ result = JNone)

\* C15 as stated: generate_from_json_file returns None, and raises nothing, for a
\* missing file, for invalid JSON, for a root that is not an object (also under the
\* formatter type 'auto') and for a document without entries
C15_FileFailuresAreNull ==
    (/\ mode = "file" /\ pc = "done"
     /\ \/ data \in {FileMissing, FileInvalid}
        \/ data.t # "dict"
        \/ data \in {DocNone, DocFlat(<<>>)}) =>
        result = JNone

\* the texts of the data rows among the lines of the preview content, in order
DataRows(lines) ==
    LET rows == SelectSeq(lines, LAMBDA l : l.kind = "row")
    IN  [i \in 1..Len(rows) |-> rows[i].text]

\* C16 as stated: the file written by the export holds every data row of the preview
\* content it was reached with, freshly generated or edited, in order and as it stands
\* in the content (its two trailing empty columns included), and nothing else
C16_ExportKeepsRows ==
    (mode = "export" /\ pc = "done" /\ written # JNone) =>
        written.file = Join(DataRows(produced), <<"\n">>)

RECURSIVE FormatAll(_, _, _)
\* what format_entry produces for the entries from the i-th on, formatted one after the
\* other by the instance f
FormatAll(f, ewm, i) ==
    IF i > Len(ewm) THEN <<>>
    ELSE Only({ << IF r.raised THEN RAISED ELSE Row(r.row) >>
                \o FormatAll(WithMappings(f, r.fm), ewm, i + 1) :
                r \in {format_entry(f, ewm[i][1], ewm[i][2])} })

\* what a call on the document produces with a formatter that starts from the alias
\* table of the configuration as the caller built it
FreshRows(d, ftype, config) ==
    FormatAll(NewFormatter(FormatterClass(ftype),
                           IF Bool(config) THEN config ELSE _get_default_config),
              _extract_entries(d).v, 1)

\* C17 as stated: whatever calls were made before on the generator, also with the same
\* custom_config object, a finished generate_from_data call has produced for its
\* document what a call starting from the base alias table produces
C17_NoLeakBetweenDocuments ==
    (mode = "generate" /\ pc = "done" /\ field.t = "int") =>
        produced = FreshRows(data, formatter_type, written)

\* C18 as stated: whatever entries an AnkiApp or Phrases instance constructed without
\* field mappings in its configuration has formatted before, format_entry returns for
\* an entry and its metadata what a new instance of the same class and configuration
\* returns for them
C18_RowIndependentOfBatch ==
    (/\ mode = "format" /\ call # NoCall /\ IsAnkiAppFamily(formatter.cls)
     /\ ~Has(formatter.config, <<"f","i","e","l","d","_","m","a","p","p","i","n","g","s">>)) =>
        \A fresh \in {format_entry(NewFormatter(formatter.cls, formatter.config),
                                   call.entry, call.metadata)} :
            /\ call.raised = fresh.raised
            /\ call.row = fresh.row

\* C19 as stated: after an AnkiApp or Phrases instance with no configured target
\* language returned a row for an entry in which exactly one non-English language
\* field and one English field are detected, the detected language's field name is
\* first in the target alias list and the English field name is first in the native
\* alias list
C19_DetectedAtRankZero ==
    (/\ mode = "format" /\ call # NoCall /\ ~call.raised /\ IsAnkiAppFamily(formatter.cls)
     /\ ~Has(formatter.config, <<"t","a","r","g","e","t","_","l","a","n","g","u","a","g","e">>)
     /\ call.entry.t = "dict"
     /\ Len(detect_language_fields(call.entry)) = 2
     /\ Len(SelectSeq(detect_language_fields(call.entry), LAMBDA d : d[1] = <<"e","n","g","l","i","s","h">>)) = 1) =>
        \A i \in 1..2 :
            LET d == detect_language_fields(call.entry)[i]
                role == IF d[1] = <<"e","n","g","l","i","s","h">> THEN <<"n","a","t","i","v","e">> ELSE <<"t","a","r","g","e","t">>
            IN  Get(formatter.field_mappings, role).v[1] = d[2]

\* the entry without the keys it holds with a dict value
WithoutDicts(entry_data) ==
    JDict(SelectSeq(entry_data.v, LAMBDA pair : pair[2].t # "dict"))

\* C20 as stated: when the entry holds an alias with a dict value, resolution gives
\* what it gives for the entry without its dict-valued keys: the dict-valued alias
\* counts as absent, and the dict's string form is never returned
C20_DictCountsAsAbsent ==
    (/\ mode = "resolve" /\ pc = "done"
     /\ HoldsDict(entries_with_metadata[1][1], RankedNames(field))) =>
        written.text = _safe_get_string(WithoutDicts(entries_with_metadata[1][1]), field, <<>>)

RECURSIVE EntriesUnder(_)
\* the entries found anywhere under a value of the document
EntriesUnder(x) ==
    IF x.t = "dict"
    THEN (IF Has(x, <<"t","a","r","g","e","t">>) THEN {x}
          ELSE UNION {EntriesUnder(x.v[i][2]) : i \in 1..Len(x.v)})
    ELSE IF x.t = "list" THEN UNION {EntriesUnder(x.v[i]) : i \in 1..Len(x.v)}
    ELSE {}

\* the entries the walk emitted
Emitted == {entries_with_metadata[i][1] : i \in 1..Len(entries_with_metadata)}

\* the keys of keys that the node declares, other than the first of them in the
\* order of keys
LaterKeys(node, keys) ==
    {keys[i] : i \in {i \in 1..Len(keys) :
                          /\ Has(node, keys[i])
                          /\ \E j \in 1..(i - 1) : Has(node, keys[j])}}

\* the sub-container keys of a unit, in priority order
SubContainerKeys == <<<<"d","a","y","s">>, <<"l","e","s","s","o","n","s">>, <<"s","e","c","t","i","o","n","s">>>>

\* the units of the container the walk goes through, <<>> when the root declares none
WalkedUnits(d) ==
    LET hit == {i \in 1..Len(ContainerKeys) : Has(d, ContainerKeys[i])}
    IN  IF hit = {} THEN <<>>
        ELSE Get(d, ContainerKeys[CHOOSE i \in hit : \A j \in hit : i <= j]).v

\* C21 as stated: after a walk, no entry is emitted that lies under a container key
\* of the root other than the first one present in priority order, nor under a
\* sub-container key of a unit other than the first one present in that unit
C21_FirstContainerOnly ==
    (mode = "walk" /\ pc = "done" /\ ~written.v) =>
        /\ \A k \in LaterKeys(data, ContainerKeys) :
               Emitted \cap EntriesUnder(Get(data, k)) = {}
        /\ \A u \in 1..Len(WalkedUnits(data)) :
               \A k \in LaterKeys(WalkedUnits(data)[u][2], SubContainerKeys) :
                   Emitted \cap EntriesUnder(Get(WalkedUnits(data)[u][2], k)) = {}

\* the collection keys in the priority order the specification gives
CollectionKeys == <<<<"e","n","t","r","i","e","s">>, <<"w","o","r","d","s">>, <<"i","t","e","m","s">>, <<"p","h","r","a","s","e","s">>>>

\* whether the node declares one of the keys
HasAny(node, keys) == \E i \in 1..Len(keys) : Has(node, keys[i])

\* the value under the first of the keys, in their order, that the node declares
FirstDeclared(node, keys) ==
    Get(node, keys[CHOOSE i \in 1..Len(keys) :
                       /\ Has(node, keys[i])
                       /\ \A j \in 1..(i - 1) : ~Has(node, keys[j])])

\* the emitted entries, in order, whose metadata satisfies the test
EmittedWhere(Test(_)) ==
    LET pairs == SelectSeq(entries_with_metadata, LAMBDA pair : Test(pair[2]))
    IN  [i \in 1..Len(pairs) |-> pairs[i][1]]

\* whether the metadata is that of a direct entry of the unit named unit_key
DirectOf(metadata, unit_key) ==
    /\ GetOr(metadata, <<"u","n","i","t","_","n","a","m","e">>, JNone) = JStr(unit_key)
    /\ ~Has(metadata, <<"s","e","c","t","i","o","n">>)

\* C22 as stated: after a walk of a root that declares one of entries, words, items,
\* phrases, the emitted entries are the elements of the first of these collections,
\* each with root metadata (no unit, no section); and the direct entries emitted for
\* a walked unit that declares several collections are the elements of the first of
\* them in the order entries, words, items, phrases
C22_FirstCollectionEmitted ==
    (mode = "walk" /\ pc = "done" /\ ~written.v) =>
        /\ HasAny(data, CollectionKeys) =>
               /\ EmittedWhere(LAMBDA metadata : TRUE) = FirstDeclared(data, CollectionKeys).v
               /\ \A i \in 1..Len(entries_with_metadata) :
                      /\ ~Has(entries_with_metadata[i][2], <<"u","n","i","t">>)
                      /\ ~Has(entries_with_metadata[i][2], <<"s","e","c","t","i","o","n">>)
        /\ ~HasAny(data, CollectionKeys) =>
               \A u \in 1..Len(WalkedUnits(data)) :
                   HasAny(WalkedUnits(data)[u][2], CollectionKeys) =>
                       EmittedWhere(LAMBDA metadata : DirectOf(metadata, WalkedUnits(data)[u][1]))
                           = FirstDeclared(WalkedUnits(data)[u][2], CollectionKeys).v

RECURSIVE EntriesInOrder(_)
\* the entries under a value of the document, in the order in which the document
\* declares them
EntriesInOrder(x) ==
    IF x.t = "dict"
    THEN (IF Has(x, <<"t","a","r","g","e","t">>) THEN <<x>>
          ELSE Flatten([i \in 1..Len(x.v) |-> EntriesInOrder(x.v[i][2])]))
    ELSE IF x.t = "list" THEN Flatten([i \in 1..Len(x.v) |-> EntriesInOrder(x.v[i])])
    ELSE <<>>

\* the place of an entry in a sequence that holds it once
PlaceIn(s, e) == CHOOSE i \in 1..Len(s) : s[i] = e

\* C23 as stated: after a walk, the pairs are emitted in document declaration order:
\* of two emitted entries the one the document declares first is emitted first
C23_DeclarationOrder ==
    (mode = "walk" /\ pc = "done" /\ ~written.v) =>
        \A i, j \in 1..Len(entries_with_metadata) :
            i < j => PlaceIn(EntriesInOrder(data), entries_with_metadata[i][1])
                         < PlaceIn(EntriesInOrder(data), entries_with_metadata[j][1])

\* the keys of the base metadata, of a unit's metadata and of a sub-section's metadata
BaseKeys ==
    {<<"t","a","r","g","e","t","_","l","a","n","g","u","a","g","e">>, <<"n","a","t","i","v","e","_","l","a","n","g","u","a","g","e">>, <<"c","o","n","t","e","n","t","_","t","y","p","e">>, <<"t","o","p","i","c">>, <<"l","e","v","e","l">>,
     <<"s","o","u","r","c","e">>, <<"w","e","e","k">>}
UnitKeys == {<<"u","n","i","t">>, <<"u","n","i","t","_","n","a","m","e">>, <<"u","n","i","t","_","t","o","p","i","c">>}
SectionKeys == {<<"s","e","c","t","i","o","n">>, <<"s","e","c","t","i","o","n","_","n","a","m","e">>, <<"s","e","c","t","i","o","n","_","t","o","p","i","c">>}

\* node.get('topic', node.get('title', ''))
TopicOf(node) == GetOr(node, <<"t","o","p","i","c">>, GetOr(node, <<"t","i","t","l","e">>, JStr(<<>>)))

\* the sub-sections of a unit: <<key, object>> of every sub-container it declares
SectionsOf(unit_data) ==
    Flatten([k \in 1..Len(SubContainerKeys) |->
                 IF Has(unit_data, SubContainerKeys[k])
                 THEN Get(unit_data, SubContainerKeys[k]).v ELSE <<>>])

\* whether the metadata carries exactly the fields of the unit
CarriesUnit(metadata, unit) ==
    /\ GetOr(metadata, <<"u","n","i","t","_","n","a","m","e">>, JNone) = JStr(unit[1])
    /\ GetOr(metadata, <<"u","n","i","t">>, JNone) = JInt(_extract_number_from_key(unit[1]))
    /\ GetOr(metadata, <<"u","n","i","t","_","t","o","p","i","c">>, JNone) = TopicOf(unit[2])

\* whether the metadata carries exactly the fields of the sub-section
CarriesSection(metadata, section) ==
    /\ GetOr(metadata, <<"s","e","c","t","i","o","n","_","n","a","m","e">>, JNone) = JStr(section[1])
    /\ GetOr(metadata, <<"s","e","c","t","i","o","n">>, JNone) = JInt(_extract_number_from_key(section[1]))
    /\ GetOr(metadata, <<"s","e","c","t","i","o","n","_","t","o","p","i","c">>, JNone) = TopicOf(section[2])

\* whether the metadata is the root's extended only with the fields of the unit and
\* the sub-section in which the document declares the entry
OwnMetadata(d, entry, metadata) ==
    LET units == WalkedUnits(d)
        own == {u \in 1..Len(units) : entry \in EntriesUnder(units[u][2])}
    IN  /\ TopicOf(d) = Get(metadata, <<"t","o","p","i","c">>)
        /\ GetOr(d, <<"w","e","e","k">>, JInt(1)) = Get(metadata, <<"w","e","e","k">>)
        /\ IF own = {}
           THEN {Keys(metadata)[k] : k \in 1..Len(metadata.v)} = BaseKeys
           ELSE \A u \in own :
                   LET sections == SectionsOf(units[u][2])
                       within == {s \in 1..Len(sections) : entry \in EntriesUnder(sections[s][2])}
                   IN  /\ CarriesUnit(metadata, units[u])
                       /\ IF within = {}
                          THEN {Keys(metadata)[k] : k \in 1..Len(metadata.v)}
                                   = BaseKeys \cup UnitKeys
                          ELSE /\ {Keys(metadata)[k] : k \in 1..Len(metadata.v)}
                                      = BaseKeys \cup UnitKeys \cup SectionKeys
                               /\ \A s \in within : CarriesSection(metadata, sections[s])

\* C24: after a walk, every pair carries the root metadata extended only with the
\* fields of the unit that holds the entry and, for an entry of a sub-section, of that
\* sub-section; an entry directly in a unit has no section field and a root entry has
\* neither unit nor section fields
C24_OwnMetadataOnly ==
    (mode = "walk" /\ pc = "done" /\ ~written.v) =>
        \A i \in 1..Len(entries_with_metadata) :
            OwnMetadata(data, entries_with_metadata[i][1], entries_with_metadata[i][2])

\* C24 witness: a walk that emitted an entry of sub-section day_2 of unit week_3 and,
\* after it, the direct entry of unit unit12, which carries no section field
C24_Witness ==
    /\ mode = "walk" /\ pc = "done" /\ ~written.v
    /\ \E i, j \in 1..Len(entries_with_metadata) :
           /\ i < j
           /\ GetOr(entries_with_metadata[i][2], <<"u","n","i","t","_","n","a","m","e">>, JNone) = JStr(<<"w","e","e","k","_","3">>)
           /\ GetOr(entries_with_metadata[i][2], <<"s","e","c","t","i","o","n","_","n","a","m","e">>, JNone) = JStr(<<"d","a","y","_","2">>)
           /\ GetOr(entries_with_metadata[i][2], <<"s","e","c","t","i","o","n","_","t","o","p","i","c">>, JNone) = JStr(<<"R","o","o","m","s">>)
           /\ entries_with_metadata[j][1] = Mk("z")
           /\ GetOr(entries_with_metadata[j][2], <<"u","n","i","t","_","t","o","p","i","c">>, JNone) = JStr(<<"F","o","o","d">>)
           /\ ~Has(entries_with_metadata[j][2], <<"s","e","c","t","i","o","n","_","n","a","m","e">>)

\* what a role of the entry resolves to through the formatter's alias list
Resolved(role) ==
    _safe_get_string(entries_with_metadata[1][1], Get(formatter.field_mappings, role), <<>>)

\* the four pieces of the Back field in their fixed order, each <<>> when its role
\* resolves empty
BackPieces ==
    LET connection == DutchConnection(formatter, entries_with_metadata[1][1])
    IN  << IF Resolved(<<"n","a","t","i","v","e">>) = <<>> THEN <<>>
           ELSE IF connection = <<>> THEN Resolved(<<"n","a","t","i","v","e">>)
           ELSE Resolved(<<"n","a","t","i","v","e">>) \o <<" ","(","U+1F1F3","U+1F1F1"," ","D","u","t","c","h",":"," ">> \o connection \o <<")">>,
           IF Resolved(<<"e","x","a","m","p","l","e">>) = <<>> THEN <<>>
           ELSE <<"<","i",">","E","x","a","m","p","l","e",":"," ">> \o Resolved(<<"e","x","a","m","p","l","e">>) \o <<"<","/","i",">">>,
           IF Resolved(<<"p","r","o","n","u","n","c","i","a","t","i","o","n">>) = <<>> THEN <<>>
           ELSE <<"<","i",">","U+1F50A"," ","P","r","o","n","u","n","c","i","a","t","i","o","n",":"," ">> \o Resolved(<<"p","r","o","n","u","n","c","i","a","t","i","o","n">>) \o <<"<","/","i",">">>,
           IF Resolved(<<"n","o","t","e","s">>) = <<>> THEN <<>>
           ELSE <<"<","i",">","U+1F4DD"," ","N","o","t","e",":"," ">> \o Resolved(<<"n","o","t","e","s">>) \o <<"<","/","i",">">> >>

\* C25: the AnkiApp Back field is the pieces native translation (with the connection
\* inline in parentheses), example, pronunciation, notes, in that order and joined by
\* "<br><br>", with a piece exactly when its role resolves non-empty
C25_BackPiecesInOrder ==
    (mode = "back" /\ pc = "done") =>
        /\ ~written.raised
        /\ written.v = Join(SelectSeq(BackPieces, LAMBDA piece : piece # <<>>), <<"<","b","r",">","<","b","r",">">>)

\* C25 witness: a Back field of native with its connection, then pronunciation, then
\* notes, for an entry whose example is empty
C25_Witness ==
    /\ mode = "back" /\ pc = "done"
    /\ written.v = <<"h","o","m","e"," ","(","U+1F1F3","U+1F1F1"," ","D","u","t","c","h",":"," ","h","u","s",")","<","b","r",">","<","b","r",">","<","i",">","U+1F50A"," ","P","r","o","n","u","n","c","i","a","t","i","o","n",":"," ","p","r","<","/","i",">","<","b","r",">","<","b","r",">","<","i",">","U+1F4DD"," ","N","o","t","e",":"," ","n","t","<","/","i",">">>
    /\ Has(entries_with_metadata[1][1], <<"e","x","a","m","p","l","e">>)

\* C26 as stated: the synthesized tag string holds no token twice
C26_NoDuplicateTag ==
    (mode = "tags" /\ pc = "done" /\ ~written.text.raised) =>
        LET tokens == Split(written.text.v, ",")
        IN  \A i, j \in 1..Len(tokens) : i # j => tokens[i] # tokens[j]

\* C29 as stated: for metadata whose topic (the section_topic when given, else the
\* topic) is a non-empty text, tag synthesis returns a tag string and does not raise
C29_TagsTotalOverTopic ==
    (/\ mode = "tags" /\ pc = "done"
     /\ MetaTopic(entries_with_metadata[1][2]).t = "str"
     /\ MetaTopic(entries_with_metadata[1][2]).v # <<>>) =>
        ~written.text.raised

\* whether text starts with prefix
StartsWith(text, prefix) ==
    Len(text) >= Len(prefix) /\ SubSeq(text, 1, Len(prefix)) = prefix

\* C27 as stated: after a walk of a document that declares no week at its root, the
\* tag string synthesized for an entry of a unit whose key holds the number N starts
\* with WeekN
C27_WeekFollowsUnitKey ==
    (mode = "walk" /\ pc = "done" /\ ~written.v /\ ~Has(data, <<"w","e","e","k">>)) =>
        \A i \in 1..Len(entries_with_metadata) :
            Has(entries_with_metadata[i][2], <<"u","n","i","t","_","n","a","m","e">>) =>
                \E tags \in {_generate_simple_tags(AnkiAppCls, entries_with_metadata[i][1],
                                                   entries_with_metadata[i][2])} :
                    /\ ~tags.raised
                    /\ StartsWith(tags.v,
                           <<"W","e","e","k">> \o IntStr(_extract_number_from_key(
                               Get(entries_with_metadata[i][2], <<"u","n","i","t","_","n","a","m","e">>).v)))

\* the number of columns of a dialect's rows
DialectColumns(ftype) ==
    CASE ftype = <<"a","n","k","i">> -> 3
      [] ftype = <<"q","u","i","z","l","e","t">> -> 2
      [] OTHER -> Len(get_headers(NewFormatter(GenericCls, JNone)))

\* C28 as stated: a generate_from_data call with formatter type anki, quizlet or
\* generic that found entries returns a path, used that dialect's formatter, and
\* every row it wrote has that dialect's number of columns
C28_DialectDispatch ==
    (/\ mode = "generate" /\ pc = "done" /\ entries_with_metadata # <<>>
     /\ formatter_type \in {<<"a","n","k","i">>, <<"q","u","i","z","l","e","t">>, <<"g","e","n","e","r","i","c">>}) =>
        /\ result = JStr(filepath)
        /\ formatter.cls = FactoryClass(formatter_type)
        /\ \A i \in 1..Len(produced) :
               ~produced[i].raised => Len(produced[i].row) = DialectColumns(formatter_type)

\* the keys the cache holds
CacheKeys == {data.v[i][1] : i \in 1..Len(data.v)}

\* the number of the last of the first n operations that accessed the key (a get or
\* a set of it), 0 when none did
LastAccess(key, n) ==
    LET hits == {i \in 1..n : produced[i].op \in {"get", "set"} /\ produced[i].key = key}
    IN  IF hits = {} THEN 0 ELSE CHOOSE i \in hits : \A j \in hits : j <= i

\* C30: after any sequence of get, set, clear and reload operations on a DataCache with
\* max_size >= 1, no operation raised, access_order holds exactly the cached keys,
\* each once, from the least to the most recently accessed, it is no longer than
\* max_size, and a set of a new key on a full cache removed exactly the key that was
\* accessed least recently
C30_AccessOrderIsLru ==
    (mode = "cache") =>
        LET access_order == field.v
            n == Len(produced)
        IN  /\ result # Exception
            /\ {access_order[i] : i \in 1..Len(access_order)} = CacheKeys
            /\ Len(access_order) = Len(data.v)
            /\ Len(access_order) <= idx
            /\ \A i, j \in 1..Len(access_order) :
                   i < j => LastAccess(access_order[i], n) < LastAccess(access_order[j], n)
            /\ (/\ n > 0 /\ produced[n].op = "set"
                /\ produced[n].key \notin produced[n].before
                /\ Cardinality(produced[n].before) >= idx) =>
                   \E oldest \in produced[n].before :
                       /\ \A key \in produced[n].before :
                              LastAccess(oldest, n - 1) <= LastAccess(key, n - 1)
                       /\ CacheKeys = (produced[n].before \ {oldest}) \cup {produced[n].key}

\* C30 witness: on a cache of max_size 2, after set v:a, set v:b, get v:a the set of
\* g:a evicted v:b, the least recently accessed key, and not v:a, the oldest one
C30_Witness ==
    /\ mode = "cache" /\ idx = 2 /\ Len(produced) = 4
    /\ produced[3].op = "get" /\ produced[3].key = <<"v",":","a">>
    /\ produced[4].op = "set" /\ produced[4].key = <<"g",":","a">>
    /\ produced[4].before = {<<"v",":","a">>, <<"v",":","b">>}
    /\ field = JList(<<<<"v",":","a">>, <<"g",":","a">>>>)
    /\ CacheKeys = {<<"v",":","a">>, <<"g",":","a">>}

====
